---- MODULE Spec2Model ----
(***************************************************************************)
(* Model of the glugglug 2D engine: Engine (transform offset stack, cache  *)
(* wrappers, frame loop), CachedRenderer (render-target cache with LRU     *)
(* eviction, capture, draw-order segmentation) and Renderer (geometry      *)
(* batch with auto-flush).                                                 *)
(*                                                                         *)
(* Units follow the code: bufferCounter and bufferSize count floats (12    *)
(* per quad), segment bounds count vertices (bufferCounter / 2, 6 per      *)
(* quad).  Numbers are modelled as integers; all offsets and coordinates   *)
(* used are integers, which JavaScript doubles represent exactly.          *)
(***************************************************************************)
EXTENDS Integers, Sequences, FiniteSets, TLC

(***************************************************************************)
(* Bounds of the exploration.                                              *)
(***************************************************************************)
\* live draws the frame callback may issue in one frame
MaxDraws == 5
\* draws a capture callback may issue into the scratch batch
MaxCaptureDraws == 2
\* render targets created in one behaviour
MaxHandles == 4
\* nesting depth of transform groups
MaxDepth == 2
\* frames rendered in one behaviour
MaxFrames == 2

(***************************************************************************)
(* Program constants and input sets.                                       *)
(***************************************************************************)
\* floats per sprite quad (6 vertices, 2 floats each)
FloatsPerQuad == 12
\* sprites the constructor allocates room for
DefaultSprites == 20000
\* the null reference (currentCacheId)
Null == "null"
\* the sprite-sheet segment tag; cache texture handles are 1, 2, ...
SPRITESHEET == 0
\* a segment whose end is still undefined
NoEnd == -1
\* cache identifiers a caller may pass (any string, the empty one included)
Ids == {"", "A", "B", "C"}
\* values of maxCacheItems a caller may pass
MaxItemsValues == {-1, 0, 1, 2}
\* values of newSize a caller may pass to growBuffer
GrowSizes == {0, 1, 2}
\* offsets a caller may pass to startGroup
GroupOffsets == {<<1, 0>>, <<0, 2>>}
\* (width, height) a caller may pass to cacheGroup
CacheDims == {<<2, 1>>}
\* framebuffer targets that are not cache entries: the default framebuffer
\* (null) and the renderer's off-screen renderFramebuffer
CANVAS == 0
MAINTARGET == -1

VARIABLES
    \* CachedRenderer: cache registry
    cacheMap, cacheFramebuffers, cacheSizes, cacheAccessOrder, maxCacheItems,
    \* CachedRenderer: capture state and the locals of the pending cacheGroup call
    currentCacheId, capture,
    \* CachedRenderer: draw-order segmentation
    segments, currentSegmentTexture,
    \* Renderer: geometry batch (arrays is the heap of Float32Array pairs)
    arrays, vertexBuffer, cacheVertexBuffer, bufferSize, bufferCounter,
    \* GL context: bound framebuffer, handle allocator, recorded draw calls,
    \* number of deleteTexture / deleteFramebuffer calls per handle
    boundFramebuffer, nextHandle, drawLog, freed,
    \* GL context: what has been rendered into each cache texture
    textureContent,
    \* Engine: transform offset stack and saved offsets
    offsetX, offsetY, offsetGroups, savedOffsetX, savedOffsetY,
    \* Engine: frames rendered so far, the caching option, cacheGroup calls that
    \* run their draw callback without caching
    frameCounter, cachingEnabled, passThrough,
    \* PostProcessManager: active program and effect; GL context: shader and
    \* program objects created and deleted
    program, effect, gpu,
    \* control: frame loop position, divergence of the eviction loop
    phase, hung,
    \* history: last API call, live draws of the frame, segments at frame close,
    \* offsets at each startGroup
    last, submitted, closedSegments, groupBase,
    \* history: the draw calls made by the callback of each capture
    capturedCalls

cacheVars == <<cacheMap, cacheFramebuffers, cacheSizes, cacheAccessOrder, maxCacheItems, freed>>
batchVars == <<arrays, vertexBuffer, cacheVertexBuffer, bufferSize, bufferCounter>>
segVars == <<segments, currentSegmentTexture>>
offsetVars == <<offsetX, offsetY, offsetGroups, savedOffsetX, savedOffsetY, groupBase>>
passVars == <<cachingEnabled, passThrough>>
effectVars == <<program, effect, gpu>>
targetVars == <<textureContent, capturedCalls>>
vars == <<cacheMap, cacheFramebuffers, cacheSizes, cacheAccessOrder, maxCacheItems,
          currentCacheId, capture, segments, currentSegmentTexture,
          arrays, vertexBuffer, cacheVertexBuffer, bufferSize, bufferCounter,
          boundFramebuffer, nextHandle, drawLog, freed, textureContent,
          offsetX, offsetY, offsetGroups, savedOffsetX, savedOffsetY,
          frameCounter, cachingEnabled, passThrough, program, effect, gpu,
          phase, hung, last, submitted, closedSegments, groupBase, capturedCalls>>

(***************************************************************************)
(* Generic helpers.                                                        *)
(***************************************************************************)
Min(a, b) == IF a < b THEN a ELSE b

Range(s) == {s[i] : i \in 1..Len(s)}

\* function f without key k (Map.delete)
MapDelete(f, k) == [x \in DOMAIN f \ {k} |-> f[x]]

\* function f with key k set to v (Map.set)
MapSet(f, k, v) == [x \in DOMAIN f \cup {k} |-> IF x = k THEN v ELSE f[x]]

EmptyMap == [x \in {} |-> 0]

\* Array.prototype.indexOf, 1-based, 0 when absent
IndexOf(s, e) ==
    IF e \in Range(s) THEN CHOOSE i \in 1..Len(s) : s[i] = e /\ \A j \in 1..(i - 1) : s[j] # e
    ELSE 0

\* Array.prototype.splice(index, 1), 1-based
Splice(s, i) == SubSeq(s, 1, i - 1) \o SubSeq(s, i + 1, Len(s))

\* JavaScript truthiness of a string: the empty string is falsy
Truthy(str) == str # ""

(***************************************************************************)
(* CachedRenderer: cache registry.  A registry value c is the record       *)
(* [map, fbs, sizes, order, hung, freed] of cacheMap, cacheFramebuffers,   *)
(* cacheSizes, cacheAccessOrder, the divergence flag of the eviction loop  *)
(* and the delete calls the GL context has received.                       *)
(***************************************************************************)
Registry == [map |-> cacheMap, fbs |-> cacheFramebuffers, sizes |-> cacheSizes,
             order |-> cacheAccessOrder, hung |-> FALSE, freed |-> freed]

\* no delete call received yet
NoneFreed == [textures |-> EmptyMap, framebuffers |-> EmptyMap]

\* gl.deleteTexture / gl.deleteFramebuffer: count one more delete of handle h
CountDelete(counts, h) == MapSet(counts, h, IF h \in DOMAIN counts THEN counts[h] + 1 ELSE 1)

\* a clearCache that deletes the texture of cacheId and not its framebuffer
DeleteTargetTextureOnly(c, cacheId) ==
    [textures |-> IF cacheId \in DOMAIN c.map
                  THEN CountDelete(c.freed.textures, c.map[cacheId])
                  ELSE c.freed.textures,
     framebuffers |-> c.freed.framebuffers]

\* the delete calls after the texture and the framebuffer of cacheId, where
\* registered, have been deleted
DeleteTarget(c, cacheId) ==
    [textures |-> IF cacheId \in DOMAIN c.map
                  THEN CountDelete(c.freed.textures, c.map[cacheId])
                  ELSE c.freed.textures,
     framebuffers |-> IF cacheId \in DOMAIN c.fbs
                      THEN CountDelete(c.freed.framebuffers, c.fbs[cacheId])
                      ELSE c.freed.framebuffers]

RECURSIVE DeleteTargets(_, _)
DeleteTargets(c, ids) ==
    IF ids = {} THEN c.freed
    ELSE LET cacheId == CHOOSE i \in ids : TRUE
         IN  DeleteTargets([c EXCEPT !.freed = DeleteTarget(c, cacheId)], ids \ {cacheId})

\* CachedRenderer.hasCachedContent
hasCachedContent(map, cacheId) == cacheId \in DOMAIN map

\* CachedRenderer.updateAccessOrder: move cacheId to the end when present
updateAccessOrder(order, cacheId) ==
    LET index == IndexOf(order, cacheId) IN
    IF index > 0 THEN Append(Splice(order, index), cacheId) ELSE order

\* a clearCache that leaves cacheId in the access order
clearCacheKeepsOrder(c, cacheId) ==
    [c EXCEPT !.freed = DeleteTarget(c, cacheId),
              !.map = MapDelete(c.map, cacheId),
              !.fbs = MapDelete(c.fbs, cacheId),
              !.sizes = MapDelete(c.sizes, cacheId)]

\* CachedRenderer.clearCache: delete the GL texture and framebuffer, drop the
\* three map entries and the first occurrence of cacheId in the access order
clearCache(c, cacheId) ==
    LET index == IndexOf(c.order, cacheId) IN
    [c EXCEPT !.freed = DeleteTarget(c, cacheId),
              !.map = MapDelete(c.map, cacheId),
              !.fbs = MapDelete(c.fbs, cacheId),
              !.sizes = MapDelete(c.sizes, cacheId),
              !.order = IF index > 0 THEN Splice(c.order, index) ELSE c.order]

\* a clearAllCache that does not truncate the access order
clearAllCacheKeepsOrder(c) ==
    [c EXCEPT !.freed = DeleteTargets(c, DOMAIN c.map \cup DOMAIN c.fbs),
              !.map = EmptyMap, !.fbs = EmptyMap, !.sizes = EmptyMap]

\* CachedRenderer.clearAllCache
clearAllCache(c) ==
    [c EXCEPT !.freed = DeleteTargets(c, DOMAIN c.map \cup DOMAIN c.fbs),
              !.map = EmptyMap, !.fbs = EmptyMap, !.sizes = EmptyMap, !.order = <<>>]

\* a single pass of the eviction loop (`if` in place of `while`): shift and
\* clear at most one id
evictOneCacheEntry(c, max) ==
    IF Cardinality(DOMAIN c.map) <= max \/ c.order = <<>> THEN c
    ELSE LET oldestCacheId == Head(c.order)
             shifted == [c EXCEPT !.order = Tail(c.order)]
         IN  IF Truthy(oldestCacheId) THEN clearCache(shifted, oldestCacheId) ELSE shifted

\* CachedRenderer.evictOldCacheEntries: while (cacheMap.size > maxCacheItems)
\* shift the oldest id and clear it if it is truthy.  Once the access order
\* is empty shift() yields undefined for ever and the loop does not exit.
RECURSIVE evictOldCacheEntries(_, _)
evictOldCacheEntries(c, max) ==
    IF Cardinality(DOMAIN c.map) <= max THEN c
    ELSE IF c.order = <<>> THEN [c EXCEPT !.hung = TRUE]
    ELSE LET oldestCacheId == Head(c.order)
             shifted == [c EXCEPT !.order = Tail(c.order)]
         IN  IF Truthy(oldestCacheId)
             THEN evictOldCacheEntries(clearCache(shifted, oldestCacheId), max)
             ELSE evictOldCacheEntries(shifted, max)

\* CachedRenderer.getCachedData: the access order after the lookup
getCachedDataOrder(c, cacheId) ==
    IF cacheId \in DOMAIN c.map /\ cacheId \in DOMAIN c.sizes
    THEN updateAccessOrder(c.order, cacheId)
    ELSE c.order

\* CachedRenderer.getCachedData: whether the lookup returns an entry
getCachedDataFound(c, cacheId) ==
    cacheId \in DOMAIN c.map /\ cacheId \in DOMAIN c.sizes

\* CacheManager.setMaxCacheItems followed by enforceMaxCacheLimit
setMaxCacheItems(c, limit) == evictOldCacheEntries(c, limit)

(***************************************************************************)
(* Renderer: geometry batch.  An array value is [len, data]: len floats,   *)
(* data maps the quad slots written so far to the quad stored there.  A    *)
(* quad is [kind, src, n, x1, y1, x2, y2]; src and n record the texture    *)
(* source and the ordinal of the live draw that submitted it.              *)
(***************************************************************************)
Quad(kind, src, n, x1, y1, x2, y2) ==
    [kind |-> kind, src |-> src, n |-> n, x1 |-> x1, y1 |-> y1, x2 |-> x2, y2 |-> y2]

\* what an unwritten slot of a Float32Array holds
ZeroQuad == Quad("zero", SPRITESHEET, 0, 0, 0, 0, 0)

NewArray(len) == [len |-> len, data |-> EmptyMap]

\* twelve typed-array stores at float offset off; stores past the end of a
\* Float32Array are ignored
WriteQuad(arr, off, quad) ==
    IF off + FloatsPerQuad <= arr.len
    THEN [arr EXCEPT !.data = MapSet(arr.data, off \div FloatsPerQuad, quad)]
    ELSE arr

\* the quads gl.drawArrays(TRIANGLES, start, count) reads from an uploaded array
ReadQuads(arr, start, count) ==
    LET first == start \div 6
        n == IF count > 0 THEN count \div 6 ELSE 0
        slot(i) == first + i - 1
        avail == IF arr.len \div FloatsPerQuad > first
                 THEN Min(n, arr.len \div FloatsPerQuad - first) ELSE 0
    IN  [i \in 1..avail |-> IF slot(i) \in DOMAIN arr.data THEN arr.data[slot(i)] ELSE ZeroQuad]

\* smallest array id not in the set of live references
FreshArrayId(live) == CHOOSE i \in 1..(Cardinality(live) + 1) :
                          i \notin live /\ \A j \in 1..(i - 1) : j \in live

(***************************************************************************)
(* A batch value r is the record [arrays, counter, segments, current, log] *)
(* of the array heap, bufferCounter (bufferPointer always equals it),      *)
(* segments, currentSegmentTexture and the GL draw calls recorded so far.  *)
(* vb is the array this.vertexBuffer refers to, size is bufferSize, capId  *)
(* is currentCacheId and fb the bound framebuffer.                         *)
(***************************************************************************)
Batch == [arrays |-> arrays, counter |-> bufferCounter, segments |-> segments,
          current |-> currentSegmentTexture, log |-> drawLog]

DrawCall(target, texture, start, count, quads) ==
    [target |-> target, texture |-> texture, start |-> start, count |-> count, quads |-> quads]

\* gl.drawArrays while a cache framebuffer is bound: the quads of the draw
\* calls that follow those of before are added to the content of the texture
\* attached to their target
RECURSIVE drawInto(_, _)
drawInto(content, calls) ==
    IF calls = <<>> THEN content
    ELSE LET call == Head(calls)
             next == IF call.target \in DOMAIN content
                     THEN [content EXCEPT ![call.target] = @ \o call.quads]
                     ELSE content
         IN  drawInto(next, Tail(calls))

renderedInto(content, before, after) ==
    IF Len(after) > Len(before)
    THEN drawInto(content, SubSeq(after, Len(before) + 1, Len(after)))
    ELSE content

\* Renderer.renderVertexBuffer: bind the sprite sheet, upload, draw vertices
\* [0, min(bufferCounter / 2, bufferSize / 2))
renderVertexBuffer(r, vb, size, fb) ==
    LET count == Min(r.counter \div 2, size \div 2) IN
    [r EXCEPT !.log = Append(r.log,
        DrawCall(fb, SPRITESHEET, 0, count, ReadQuads(r.arrays[vb], 0, count)))]

\* Renderer.resetBuffers
resetBuffers(r) == [r EXCEPT !.counter = 0]

\* CachedRenderer.ensureSegment
ensureSegment(r, texture, capId) ==
    LET currentVertexIndex == r.counter \div 2
        n == Len(r.segments)
        open == [texture |-> texture, start |-> currentVertexIndex, end |-> NoEnd]
    IN  IF capId # Null THEN r
        ELSE IF n = 0
        THEN [r EXCEPT !.segments = <<open>>, !.current = texture]
        ELSE IF r.current # texture
        THEN LET closed == IF r.segments[n].end = NoEnd
                           THEN [r.segments EXCEPT ![n].end = currentVertexIndex]
                           ELSE r.segments
             IN  [r EXCEPT !.segments = Append(closed, open), !.current = texture]
        ELSE r

\* Renderer.drawSpriteFromCoordinates / drawLineFromCoordinates: flush when
\* the quad does not fit, store the quad at bufferPointer, advance by 12
appendWithAutoFlush(r, vb, size, fb, quad) ==
    LET flushed == IF r.counter + FloatsPerQuad > size
                   THEN resetBuffers(renderVertexBuffer(r, vb, size, fb))
                   ELSE r
    IN  [flushed EXCEPT !.arrays[vb] = WriteQuad(flushed.arrays[vb], flushed.counter, quad),
                        !.counter = flushed.counter + FloatsPerQuad]

\* this.renderer.drawSpriteFromCoordinates / drawLineFromCoordinates: the
\* override of CachedRenderer or, in an engine without caching, Renderer's
drawFromCoordinates(r, vb, size, fb, capId, quad) ==
    appendWithAutoFlush(IF cachingEnabled /\ capId = Null
                        THEN ensureSegment(r, SPRITESHEET, capId) ELSE r,
                        vb, size, fb, quad)

\* a drawCachedTexture that stores the quad without advancing bufferCounter
drawCachedTextureNoAdvance(r, vb, size, fb, capId, texture, quad) ==
    IF capId # Null THEN r
    ELSE LET seg == ensureSegment(r, texture, capId)
         IN  [seg EXCEPT !.arrays[vb] = WriteQuad(seg.arrays[vb], seg.counter, quad)]

\* CachedRenderer.drawCachedTexture
drawCachedTexture(r, vb, size, fb, capId, texture, quad) ==
    IF capId # Null THEN r
    ELSE LET seg == ensureSegment(r, texture, capId)
             flushed == IF seg.counter + FloatsPerQuad > size
                        THEN ensureSegment(resetBuffers(renderVertexBuffer(seg, vb, size, fb)),
                                           texture, capId)
                        ELSE seg
         IN  [flushed EXCEPT !.arrays[vb] = WriteQuad(flushed.arrays[vb], flushed.counter, quad),
                             !.counter = flushed.counter + FloatsPerQuad]

\* one gl.drawArrays of the replay loop of renderWithPostProcessing; a segment
\* with count <= 0 issues no draw call
replaySegment(log, arr, seg, counter) ==
    LET end == IF seg.end = NoEnd THEN counter \div 2 ELSE seg.end
        count == end - seg.start
    IN  IF count <= 0 THEN log
        ELSE Append(log, DrawCall(MAINTARGET, seg.texture, seg.start, count,
                                  ReadQuads(arr, seg.start, count)))

RECURSIVE replaySegments(_, _, _, _)
replaySegments(log, arr, segs, counter) ==
    IF segs = <<>> THEN log
    ELSE replaySegments(replaySegment(log, arr, Head(segs), counter), arr, Tail(segs), counter)

\* CachedRenderer.renderWithPostProcessing: close the open segment, bind the
\* off-screen target, replay the segments (or fall back to one sprite-sheet
\* draw), then discard the segment list
closeSegments(segs, counter, capId) ==
    IF capId = Null /\ Len(segs) > 0 /\ segs[Len(segs)].end = NoEnd
    THEN [segs EXCEPT ![Len(segs)].end = counter \div 2]
    ELSE segs

renderWithPostProcessing(r, vb, size, capId) ==
    LET closed == closeSegments(r.segments, r.counter, capId)
        drawn == IF capId = Null /\ Len(closed) > 0
                 THEN replaySegments(r.log, r.arrays[vb], closed, r.counter)
                 ELSE renderVertexBuffer(r, vb, size, MAINTARGET).log
    IN  [r EXCEPT !.log = drawn, !.segments = <<>>, !.current = SPRITESHEET]

(***************************************************************************)
(* State after new Engine(canvas, {caching, maxCacheItems}).               *)
(***************************************************************************)
NoCapture == [active |-> FALSE, cacheId |-> Null, savedVertexBuffer |-> 0,
              savedBufferCounter |-> 0, draws |-> 0,
              offsetAtCall |-> <<0, 0>>, groupsAtCall |-> <<>>, targetAtCall |-> CANVAS]

\* the last API call: its name, its cacheId (cacheGroup only), what it
\* returned, whether it invoked its callback, the error it threw, and the
\* ids it removed (clearAllCache only)
LastCall(op, id, ret, cb, err) ==
    [op |-> op, id |-> id, ret |-> ret, cb |-> cb, err |-> err, ids |-> {}]

\* no shader or program object created or deleted yet
NoGpuObjects == [shaders |-> 0, programs |-> 0, deletedShaders |-> 0, deletedPrograms |-> 0,
                 setEffectCalls |-> 0]

InitEngine(maxItems, cachingOptions) ==
    /\ cachingEnabled \in cachingOptions /\ passThrough = <<>>
    /\ program = 0 /\ effect = Null /\ gpu = NoGpuObjects
    /\ cacheMap = EmptyMap /\ cacheFramebuffers = EmptyMap /\ cacheSizes = EmptyMap
    /\ cacheAccessOrder = <<>>
    /\ maxCacheItems \in maxItems
    /\ currentCacheId = Null /\ capture = NoCapture
    /\ segments = <<>> /\ currentSegmentTexture = SPRITESHEET
    /\ arrays = (1 :> NewArray(DefaultSprites * FloatsPerQuad)
                 @@ 2 :> NewArray(DefaultSprites * FloatsPerQuad))
    /\ vertexBuffer = 1 /\ cacheVertexBuffer = 2
    /\ bufferSize = DefaultSprites * FloatsPerQuad /\ bufferCounter = 0
    /\ boundFramebuffer = CANVAS /\ nextHandle = 1 /\ drawLog = <<>>
    /\ freed = NoneFreed /\ textureContent = EmptyMap
    /\ offsetX = 0 /\ offsetY = 0 /\ offsetGroups = <<>>
    /\ savedOffsetX = <<>> /\ savedOffsetY = <<>>
    /\ frameCounter = 0
    /\ phase = "init" /\ hung = FALSE
    /\ last = LastCall("new", Null, FALSE, FALSE, "")
    /\ submitted = <<>> /\ closedSegments = <<>> /\ groupBase = <<>>
    /\ capturedCalls = EmptyMap

InitWith(maxItems) == InitEngine(maxItems, {TRUE})

Init == InitEngine(MaxItemsValues, {TRUE, FALSE})

\* the callback of render() is running and no loop has diverged
InCallback == phase = "frame" /\ ~hung

SetRegistry(c) ==
    /\ cacheMap' = c.map /\ cacheFramebuffers' = c.fbs /\ cacheSizes' = c.sizes
    /\ cacheAccessOrder' = c.order /\ hung' = c.hung /\ freed' = c.freed

SetBatch(r) ==
    /\ arrays' = r.arrays /\ bufferCounter' = r.counter /\ segments' = r.segments
    /\ currentSegmentTexture' = r.current /\ drawLog' = r.log

\* room left, within the bounds, for one more draw call of the callback
DrawBudget ==
    IF currentCacheId = Null THEN Len(submitted) < MaxDraws
    ELSE capture.draws < MaxCaptureDraws

\* ordinal of the next live draw (0 for a draw made during a capture)
NextOrdinal == IF currentCacheId = Null THEN Len(submitted) + 1 ELSE 0

Submit(src) == IF currentCacheId = Null THEN Append(submitted, src) ELSE submitted

\* capturedCalls after a draw call of the callback: during a capture the
\* call, its arguments and the offset of the groups opened inside the
\* callback are added to the calls of the target being captured
Called(kind, args) ==
    IF currentCacheId # Null /\ boundFramebuffer \in DOMAIN capturedCalls
    THEN [capturedCalls EXCEPT ![boundFramebuffer] =
              Append(@, [kind |-> kind, args |-> args, dx |-> offsetX, dy |-> offsetY])]
    ELSE capturedCalls

\* the capture record after one more draw of the capture callback
CountDraw == IF currentCacheId = Null THEN capture ELSE [capture EXCEPT !.draws = @ + 1]

(***************************************************************************)
(* Engine: transform offset stack.                                         *)
(***************************************************************************)
\* Engine.startGroup
StartGroup(x, y) ==
    /\ InCallback /\ Len(offsetGroups) < MaxDepth
    /\ offsetX' = offsetX + x /\ offsetY' = offsetY + y
    /\ offsetGroups' = Append(offsetGroups, <<x, y>>)
    /\ groupBase' = Append(groupBase, <<offsetX, offsetY>>)
    /\ last' = LastCall("startGroup", Null, FALSE, FALSE, "")
    /\ UNCHANGED <<cacheVars, batchVars, segVars, currentCacheId, capture, boundFramebuffer,
                   nextHandle, drawLog, savedOffsetX, savedOffsetY, phase, hung, submitted,
                   closedSegments, frameCounter>>
    /\ UNCHANGED <<passVars, effectVars, targetVars>>

\* the first pushed pair (shift in place of pop)
FirstGroup(groups) == groups[1]

\* what Engine.endGroup pops: the last pushed pair
PoppedGroup(groups) == groups[Len(groups)]

\* Engine.endGroup on a non-empty stack
EndGroupOk ==
    /\ InCallback /\ offsetGroups # <<>>
    /\ LET coordinates == PoppedGroup(offsetGroups) IN
       /\ offsetX' = offsetX - coordinates[1]
       /\ offsetY' = offsetY - coordinates[2]
       /\ offsetGroups' = SubSeq(offsetGroups, 1, Len(offsetGroups) - 1)
    /\ groupBase' = SubSeq(groupBase, 1, Len(groupBase) - 1)
    /\ last' = LastCall("endGroup", Null, FALSE, FALSE, "")
    /\ UNCHANGED <<cacheVars, batchVars, segVars, currentCacheId, capture, boundFramebuffer,
                   nextHandle, drawLog, savedOffsetX, savedOffsetY, phase, hung, submitted,
                   closedSegments, frameCounter>>
    /\ UNCHANGED <<passVars, effectVars, targetVars>>

\* an endGroup that returns normally
EndGroupSilentResult == LastCall("endGroup", Null, FALSE, FALSE, "")

\* what Engine.endGroup does when pop() returns undefined
EndGroupEmptyResult == LastCall("endGroup", Null, FALSE, FALSE, "No group to end")

\* Engine.endGroup on an empty stack: throws, the caller catches
EndGroupEmpty ==
    /\ InCallback /\ offsetGroups = <<>>
    /\ last' = EndGroupEmptyResult
    /\ UNCHANGED <<cacheVars, batchVars, segVars, currentCacheId, capture, boundFramebuffer,
                   nextHandle, drawLog, offsetVars, phase, hung, submitted, closedSegments,
                   frameCounter>>
    /\ UNCHANGED <<passVars, effectVars, targetVars>>

(***************************************************************************)
(* Engine: draw primitives.                                                *)
(***************************************************************************)
\* drawSpriteFromCoordinates without the transform group offsets
DrawSpriteNoOffset(x, y, w, h) ==
    /\ InCallback /\ DrawBudget
    /\ LET quad == Quad("sprite", SPRITESHEET, NextOrdinal, x, y, x + w, y + h)
       IN  SetBatch(drawFromCoordinates(Batch, vertexBuffer, bufferSize, boundFramebuffer,
                                        currentCacheId, quad))
    /\ submitted' = Submit(SPRITESHEET)
    /\ capture' = CountDraw
    /\ last' = LastCall("drawSprite", Null, FALSE, FALSE, "")
    /\ UNCHANGED <<cacheVars, vertexBuffer, cacheVertexBuffer, bufferSize, currentCacheId,
                   boundFramebuffer, nextHandle, offsetVars, phase, hung, closedSegments,
                   frameCounter>>
    /\ UNCHANGED <<passVars, effectVars>>
    /\ textureContent' = renderedInto(textureContent, drawLog, drawLog')
    /\ capturedCalls' = Called("sprite", <<x, y, w, h>>)

\* Engine.drawSpriteFromCoordinates(x, y, w, h, ...)
DrawSprite(x, y, w, h) ==
    /\ InCallback /\ DrawBudget
    /\ LET quad == Quad("sprite", SPRITESHEET, NextOrdinal,
                        x + offsetX, y + offsetY, x + offsetX + w, y + offsetY + h)
       IN  SetBatch(drawFromCoordinates(Batch, vertexBuffer, bufferSize, boundFramebuffer,
                                        currentCacheId, quad))
    /\ submitted' = Submit(SPRITESHEET)
    /\ capture' = CountDraw
    /\ last' = LastCall("drawSprite", Null, FALSE, FALSE, "")
    /\ UNCHANGED <<cacheVars, vertexBuffer, cacheVertexBuffer, bufferSize, currentCacheId,
                   boundFramebuffer, nextHandle, offsetVars, phase, hung, closedSegments,
                   frameCounter>>
    /\ UNCHANGED <<passVars, effectVars>>
    /\ textureContent' = renderedInto(textureContent, drawLog, drawLog')
    /\ capturedCalls' = Called("sprite", <<x, y, w, h>>)

\* Engine.drawLine(x1, y1, x2, y2, sprite, thickness)
DrawLine(x1, y1, x2, y2) ==
    /\ InCallback /\ DrawBudget
    /\ LET quad == Quad("line", SPRITESHEET, NextOrdinal,
                        x1 + offsetX, y1 + offsetY, x2 + offsetX, y2 + offsetY)
       IN  SetBatch(drawFromCoordinates(Batch, vertexBuffer, bufferSize, boundFramebuffer,
                                        currentCacheId, quad))
    /\ submitted' = Submit(SPRITESHEET)
    /\ capture' = CountDraw
    /\ last' = LastCall("drawLine", Null, FALSE, FALSE, "")
    /\ UNCHANGED <<cacheVars, vertexBuffer, cacheVertexBuffer, bufferSize, currentCacheId,
                   boundFramebuffer, nextHandle, offsetVars, phase, hung, closedSegments,
                   frameCounter>>
    /\ UNCHANGED <<passVars, effectVars>>
    /\ textureContent' = renderedInto(textureContent, drawLog, drawLog')
    /\ capturedCalls' = Called("line", <<x1, y1, x2, y2>>)

(***************************************************************************)
(* Engine / CachedRenderer: cache playback and management.                 *)
(***************************************************************************)
\* drawCachedContent that opens a sprite-sheet segment for an unknown id
PlayCachedOpensSegment(cacheId, x, y) ==
    IF ~hasCachedContent(cacheMap, cacheId)
    THEN /\ SetBatch(ensureSegment(Batch, SPRITESHEET, currentCacheId))
         /\ UNCHANGED <<cacheAccessOrder, submitted>>
    ELSE LET texture == cacheMap[cacheId]
             size == cacheSizes[cacheId]
             px == x + offsetX
             py == y + offsetY
             quad == Quad("cached", texture, NextOrdinal, px, py, px + size[1], py + size[2])
         IN  /\ currentCacheId = Null => Len(submitted) < MaxDraws
             /\ cacheAccessOrder' = getCachedDataOrder(Registry, cacheId)
             /\ SetBatch(drawCachedTexture(Batch, vertexBuffer, bufferSize, boundFramebuffer,
                                           currentCacheId, texture, quad))
             /\ submitted' = Submit(texture)

\* the body of Engine.drawCachedContent(cacheId, x, y): silent return when
\* the id is unknown, else LRU touch through getCachedData and one quad
\* through drawCachedTexture (which does nothing during a capture)
PlayCached(cacheId, x, y) ==
    IF ~hasCachedContent(cacheMap, cacheId)
    THEN UNCHANGED <<cacheAccessOrder, arrays, bufferCounter, segments,
                     currentSegmentTexture, drawLog, submitted>>
    ELSE LET texture == cacheMap[cacheId]
             size == cacheSizes[cacheId]
             px == x + offsetX
             py == y + offsetY
             quad == Quad("cached", texture, NextOrdinal, px, py, px + size[1], py + size[2])
         IN  /\ currentCacheId = Null => Len(submitted) < MaxDraws
             /\ cacheAccessOrder' = getCachedDataOrder(Registry, cacheId)
             /\ SetBatch(drawCachedTexture(Batch, vertexBuffer, bufferSize, boundFramebuffer,
                                           currentCacheId, texture, quad))
             /\ submitted' = Submit(texture)

\* a drawCachedContent whose drawCachedTexture does not look at currentCacheId
DrawCachedContentIgnoresCapture(cacheId, x, y) ==
    /\ cachingEnabled
    /\ InCallback
    /\ IF ~hasCachedContent(cacheMap, cacheId)
       THEN UNCHANGED <<cacheAccessOrder, arrays, bufferCounter, segments,
                        currentSegmentTexture, drawLog, submitted>>
       ELSE LET texture == cacheMap[cacheId]
                size == cacheSizes[cacheId]
                px == x + offsetX
                py == y + offsetY
                quad == Quad("cached", texture, NextOrdinal, px, py, px + size[1], py + size[2])
            IN  /\ currentCacheId = Null => Len(submitted) < MaxDraws
                /\ cacheAccessOrder' = getCachedDataOrder(Registry, cacheId)
                /\ SetBatch(drawCachedTexture(Batch, vertexBuffer, bufferSize, boundFramebuffer,
                                              Null, texture, quad))
                /\ submitted' = Submit(texture)
    /\ last' = LastCall("drawCachedContent", Null, FALSE, FALSE, "")
    /\ UNCHANGED <<cacheMap, cacheFramebuffers, cacheSizes, maxCacheItems, freed,
                   vertexBuffer, cacheVertexBuffer, bufferSize, currentCacheId, capture,
                   boundFramebuffer, nextHandle, offsetVars, phase, hung, closedSegments,
                   frameCounter>>
    /\ UNCHANGED <<passVars, effectVars, targetVars>>

\* Engine.drawCachedContent
DrawCachedContent(cacheId, x, y) ==
    /\ cachingEnabled
    /\ InCallback
    /\ PlayCached(cacheId, x, y)
    /\ last' = LastCall("drawCachedContent", Null, FALSE, FALSE, "")
    /\ UNCHANGED <<cacheMap, cacheFramebuffers, cacheSizes, maxCacheItems, freed,
                   vertexBuffer, cacheVertexBuffer, bufferSize, currentCacheId, capture,
                   boundFramebuffer, nextHandle, offsetVars, phase, hung, closedSegments,
                   frameCounter>>
    /\ UNCHANGED <<passVars, effectVars, targetVars>>

\* Engine.cacheGroup, id already cached: play it back at the current offset
CacheGroupReuse(cacheId) ==
    /\ cachingEnabled
    /\ InCallback
    /\ hasCachedContent(cacheMap, cacheId)
    /\ PlayCached(cacheId, 0, 0)
    /\ last' = LastCall("cacheGroup", cacheId, FALSE, FALSE, "")
    /\ UNCHANGED <<cacheMap, cacheFramebuffers, cacheSizes, maxCacheItems, freed,
                   vertexBuffer, cacheVertexBuffer, bufferSize, currentCacheId, capture,
                   boundFramebuffer, nextHandle, offsetVars, phase, hung, closedSegments,
                   frameCounter>>
    /\ UNCHANGED <<passVars, effectVars, targetVars>>

\* a cacheGroup on a cached id that plays the entry back at the width and
\* height passed to the call
CacheGroupExistingResizes(cacheId, dims) ==
    /\ cachingEnabled
    /\ InCallback
    /\ hasCachedContent(cacheMap, cacheId)
    /\ LET texture == cacheMap[cacheId]
           quad == Quad("cached", texture, NextOrdinal, offsetX, offsetY,
                        offsetX + dims[1], offsetY + dims[2])
       IN  /\ currentCacheId = Null => Len(submitted) < MaxDraws
           /\ cacheAccessOrder' = getCachedDataOrder(Registry, cacheId)
           /\ SetBatch(drawCachedTexture(Batch, vertexBuffer, bufferSize, boundFramebuffer,
                                         currentCacheId, texture, quad))
           /\ submitted' = Submit(texture)
    /\ last' = LastCall("cacheGroup", cacheId, FALSE, FALSE, "")
    /\ UNCHANGED <<cacheMap, cacheFramebuffers, cacheSizes, maxCacheItems, freed,
                   vertexBuffer, cacheVertexBuffer, bufferSize, currentCacheId, capture,
                   boundFramebuffer, nextHandle, offsetVars, phase, hung, closedSegments,
                   frameCounter>>
    /\ UNCHANGED <<passVars, effectVars, targetVars>>

\* Engine.cacheGroup(cacheId, width, height, draw), id already cached: the
\* width and height of the call are not read; the entry is played back
\* through drawCachedContent(cacheId, 0, 0) at the size stored with it
CacheGroupExisting(cacheId, dims) ==
    /\ cachingEnabled
    /\ InCallback
    /\ hasCachedContent(cacheMap, cacheId)
    /\ LET texture == cacheMap[cacheId]
           size == cacheSizes[cacheId]
           quad == Quad("cached", texture, NextOrdinal, offsetX, offsetY,
                        offsetX + size[1], offsetY + size[2])
       IN  /\ currentCacheId = Null => Len(submitted) < MaxDraws
           /\ cacheAccessOrder' = getCachedDataOrder(Registry, cacheId)
           /\ SetBatch(drawCachedTexture(Batch, vertexBuffer, bufferSize, boundFramebuffer,
                                         currentCacheId, texture, quad))
           /\ submitted' = Submit(texture)
    /\ last' = LastCall("cacheGroup", cacheId, FALSE, FALSE, "")
    /\ UNCHANGED <<cacheMap, cacheFramebuffers, cacheSizes, maxCacheItems, freed,
                   vertexBuffer, cacheVertexBuffer, bufferSize, currentCacheId, capture,
                   boundFramebuffer, nextHandle, offsetVars, phase, hung, closedSegments,
                   frameCounter>>
    /\ UNCHANGED <<passVars, effectVars, targetVars>>

\* what CachedRenderer.cacheGroup does when currentCacheId is not null
NestedCaptureResult(cacheId) ==
    LastCall("cacheGroup", cacheId, FALSE, FALSE,
             "Cannot start cache group: already in a cache group")

\* a nested call that starts the inner capture instead of failing at once
CacheGroupNestedStarts(cacheId) ==
    /\ cachingEnabled
    /\ InCallback
    /\ ~hasCachedContent(cacheMap, cacheId)
    /\ currentCacheId # Null
    /\ savedOffsetX' = <<offsetX>> /\ savedOffsetY' = <<offsetY>>
    /\ offsetX' = 0 /\ offsetY' = 0
    /\ currentCacheId' = cacheId
    /\ last' = LastCall("cacheGroupBegin", cacheId, FALSE, TRUE, "")
    /\ UNCHANGED <<cacheVars, batchVars, segVars, capture, boundFramebuffer, nextHandle,
                   drawLog, offsetGroups, groupBase, phase, hung, submitted, closedSegments,
                   frameCounter>>
    /\ UNCHANGED <<passVars, effectVars, targetVars>>

\* Engine.cacheGroup, id not cached, a capture in flight: the engine saves
\* and zeroes its offsets, CachedRenderer.cacheGroup throws at once and the
\* caller catches
CacheGroupNested(cacheId) ==
    /\ cachingEnabled
    /\ InCallback
    /\ ~hasCachedContent(cacheMap, cacheId)
    /\ currentCacheId # Null
    /\ savedOffsetX' = <<offsetX>> /\ savedOffsetY' = <<offsetY>>
    /\ offsetX' = 0 /\ offsetY' = 0
    /\ last' = NestedCaptureResult(cacheId)
    /\ UNCHANGED <<cacheVars, batchVars, segVars, currentCacheId, capture, boundFramebuffer,
                   nextHandle, drawLog, offsetGroups, groupBase, phase, hung, submitted,
                   closedSegments, frameCounter>>
    /\ UNCHANGED <<passVars, effectVars, targetVars>>

\* the points at which the creation of a render target can fail:
\* gl.createTexture returns null, gl.createFramebuffer returns null, the
\* framebuffer is not complete
CreateFailures == {"texture", "framebuffer", "incomplete"}

\* the error createCacheTexture / createCacheFramebuffer throws
CreateError(stage) ==
    IF stage = "texture" THEN "Failed to create cache texture"
    ELSE IF stage = "framebuffer" THEN "Failed to create cache framebuffer"
    ELSE "Cache framebuffer not complete"

\* the GL objects after the failed creation: a texture that exists once
\* createCacheTexture returned, a framebuffer deleted when it is incomplete
CreateFailureFreed(stage) ==
    IF stage = "incomplete"
    THEN [freed EXCEPT !.framebuffers = CountDelete(freed.framebuffers, nextHandle)]
    ELSE freed

\* a failed creation that has registered the entry before it throws
CacheGroupCreateFailsRegistered(cacheId, dims, stage) ==
    /\ cachingEnabled
    /\ InCallback
    /\ ~hasCachedContent(cacheMap, cacheId)
    /\ currentCacheId = Null
    /\ nextHandle <= MaxHandles
    /\ savedOffsetX' = <<offsetX>> /\ savedOffsetY' = <<offsetY>>
    /\ offsetX' = 0 /\ offsetY' = 0
    /\ vertexBuffer' = cacheVertexBuffer
    /\ bufferCounter' = 0
    /\ nextHandle' = nextHandle + 1
    /\ cacheMap' = MapSet(cacheMap, cacheId, nextHandle)
    /\ cacheFramebuffers' = MapSet(cacheFramebuffers, cacheId, nextHandle)
    /\ cacheSizes' = MapSet(cacheSizes, cacheId, dims)
    /\ cacheAccessOrder' = Append(cacheAccessOrder, cacheId)
    /\ freed' = CreateFailureFreed(stage)
    /\ last' = LastCall("cacheGroup", cacheId, FALSE, FALSE, CreateError(stage))
    /\ UNCHANGED <<maxCacheItems, arrays, cacheVertexBuffer, bufferSize, segVars,
                   currentCacheId, capture, boundFramebuffer, drawLog, offsetGroups, groupBase,
                   phase, hung, submitted, closedSegments, frameCounter>>
    /\ UNCHANGED <<passVars, effectVars, targetVars>>

\* Engine.cacheGroup, id not cached, no capture in flight, the creation of
\* the render target fails: the engine has saved and zeroed its offsets and
\* the renderer has swapped in the capture buffers when createCacheTexture
\* or createCacheFramebuffer throws; nothing is registered, nothing is
\* restored, and the caller catches
CacheGroupCreateFails(cacheId, dims, stage) ==
    /\ cachingEnabled
    /\ InCallback
    /\ ~hasCachedContent(cacheMap, cacheId)
    /\ currentCacheId = Null
    /\ stage # "texture" => nextHandle <= MaxHandles
    /\ savedOffsetX' = <<offsetX>> /\ savedOffsetY' = <<offsetY>>
    /\ offsetX' = 0 /\ offsetY' = 0
    /\ vertexBuffer' = cacheVertexBuffer
    /\ bufferCounter' = 0
    /\ nextHandle' = IF stage = "texture" THEN nextHandle ELSE nextHandle + 1
    /\ freed' = CreateFailureFreed(stage)
    /\ last' = LastCall("cacheGroup", cacheId, FALSE, FALSE, CreateError(stage))
    /\ UNCHANGED <<cacheMap, cacheFramebuffers, cacheSizes, cacheAccessOrder, maxCacheItems,
                   arrays, cacheVertexBuffer, bufferSize, segVars, currentCacheId, capture,
                   boundFramebuffer, drawLog, offsetGroups, groupBase, phase, hung, submitted,
                   closedSegments, frameCounter>>
    /\ UNCHANGED <<passVars, effectVars, targetVars>>

\* a registration that stores the texture and the framebuffer of the new
\* entry but not its size
registerAndEvictNoSize(c, cacheId, handle, dims, max) ==
    evictOldCacheEntries(
        [c EXCEPT !.map = MapSet(c.map, cacheId, handle),
                  !.fbs = MapSet(c.fbs, cacheId, handle),
                  !.order = Append(c.order, cacheId)], max)

\* the registry after CachedRenderer.cacheGroup stored the new entry and ran
\* evictOldCacheEntries
registerAndEvict(c, cacheId, handle, dims, max) ==
    evictOldCacheEntries(
        [c EXCEPT !.map = MapSet(c.map, cacheId, handle),
                  !.fbs = MapSet(c.fbs, cacheId, handle),
                  !.sizes = MapSet(c.sizes, cacheId, dims),
                  !.order = Append(c.order, cacheId)], max)

\* Engine.cacheGroup, id not cached, no capture in flight, up to the call of
\* draw(): save and zero the offsets, swap in the capture buffers, create
\* and register the render target, bind it, evict
CacheGroupBegin(cacheId, dims) ==
    /\ cachingEnabled
    /\ InCallback
    /\ ~hasCachedContent(cacheMap, cacheId)
    /\ currentCacheId = Null
    /\ nextHandle <= MaxHandles
    /\ savedOffsetX' = <<offsetX>> /\ savedOffsetY' = <<offsetY>>
    /\ offsetX' = 0 /\ offsetY' = 0
    /\ capture' = [active |-> TRUE, cacheId |-> cacheId, savedVertexBuffer |-> vertexBuffer,
                   savedBufferCounter |-> bufferCounter, draws |-> 0,
                   offsetAtCall |-> <<offsetX, offsetY>>, groupsAtCall |-> offsetGroups,
                   targetAtCall |-> boundFramebuffer]
    /\ vertexBuffer' = cacheVertexBuffer
    /\ bufferCounter' = 0
    /\ SetRegistry(registerAndEvict(Registry, cacheId, nextHandle, dims, maxCacheItems))
    /\ nextHandle' = nextHandle + 1
    /\ currentCacheId' = cacheId
    /\ boundFramebuffer' = nextHandle
    /\ last' = LastCall("cacheGroupBegin", cacheId, FALSE, TRUE, "")
    /\ UNCHANGED <<maxCacheItems, arrays, cacheVertexBuffer, bufferSize, segVars, drawLog,
                   offsetGroups, groupBase, phase, submitted, closedSegments, frameCounter>>
    /\ UNCHANGED <<passVars, effectVars>>
    /\ textureContent' = MapSet(textureContent, nextHandle, <<>>)
    /\ capturedCalls' = MapSet(capturedCalls, nextHandle, <<>>)

\* a cacheGroup whose finally block does not clear currentCacheId
CacheGroupEndKeepsId ==
    /\ InCallback
    /\ capture.active
    /\ IF passThrough = <<>> THEN TRUE ELSE ~passThrough[Len(passThrough)].inCapture
    /\ LET flushed == IF bufferCounter > 0
                      THEN resetBuffers(renderVertexBuffer(Batch, vertexBuffer, bufferSize,
                                                           boundFramebuffer))
                      ELSE Batch
       IN  /\ arrays' = flushed.arrays
           /\ drawLog' = flushed.log
    /\ boundFramebuffer' = CANVAS
    /\ vertexBuffer' = capture.savedVertexBuffer
    /\ bufferCounter' = capture.savedBufferCounter
    /\ currentCacheId' = currentCacheId
    /\ capture' = NoCapture
    /\ IF savedOffsetX # <<>> /\ savedOffsetY # <<>>
       THEN /\ offsetX' = savedOffsetX[1] /\ offsetY' = savedOffsetY[1]
            /\ savedOffsetX' = <<>> /\ savedOffsetY' = <<>>
       ELSE UNCHANGED <<offsetX, offsetY, savedOffsetX, savedOffsetY>>
    /\ last' = LastCall("cacheGroup", capture.cacheId, TRUE, TRUE, "")
    /\ UNCHANGED <<cacheVars, cacheVertexBuffer, bufferSize, segVars, nextHandle,
                   offsetGroups, groupBase, phase, hung, submitted, closedSegments, frameCounter>>
    /\ UNCHANGED <<passVars, effectVars>>
    /\ textureContent' = renderedInto(textureContent, drawLog, drawLog')
    /\ UNCHANGED capturedCalls

\* draw() returned: the finally block of CachedRenderer.cacheGroup flushes
\* the capture buffers into the cache target, rebinds the default
\* framebuffer, restores the frame buffers and counters and clears
\* currentCacheId; Engine.cacheGroup restores its offsets and returns true
CacheGroupEnd ==
    /\ InCallback
    /\ capture.active
    /\ IF passThrough = <<>> THEN TRUE ELSE ~passThrough[Len(passThrough)].inCapture
    /\ LET flushed == IF bufferCounter > 0
                      THEN resetBuffers(renderVertexBuffer(Batch, vertexBuffer, bufferSize,
                                                           boundFramebuffer))
                      ELSE Batch
       IN  /\ arrays' = flushed.arrays
           /\ drawLog' = flushed.log
    /\ boundFramebuffer' = CANVAS
    /\ vertexBuffer' = capture.savedVertexBuffer
    /\ bufferCounter' = capture.savedBufferCounter
    /\ currentCacheId' = Null
    /\ capture' = NoCapture
    /\ IF savedOffsetX # <<>> /\ savedOffsetY # <<>>
       THEN /\ offsetX' = savedOffsetX[1] /\ offsetY' = savedOffsetY[1]
            /\ savedOffsetX' = <<>> /\ savedOffsetY' = <<>>
       ELSE UNCHANGED <<offsetX, offsetY, savedOffsetX, savedOffsetY>>
    /\ last' = LastCall("cacheGroup", capture.cacheId, TRUE, TRUE, "")
    /\ UNCHANGED <<cacheVars, cacheVertexBuffer, bufferSize, segVars, nextHandle,
                   offsetGroups, groupBase, phase, hung, submitted, closedSegments, frameCounter>>
    /\ UNCHANGED <<passVars, effectVars>>
    /\ textureContent' = renderedInto(textureContent, drawLog, drawLog')
    /\ UNCHANGED capturedCalls

\* the error a throwing draw callback raises
DrawError == "draw failed"

\* a cacheGroup without the finally block: the exception of draw() leaves
\* the capture buffers, the cache framebuffer and currentCacheId in place
CacheGroupThrowNoFinally ==
    /\ InCallback
    /\ capture.active
    /\ IF passThrough = <<>> THEN TRUE ELSE ~passThrough[Len(passThrough)].inCapture
    /\ capture' = NoCapture
    /\ last' = LastCall("cacheGroup", capture.cacheId, FALSE, TRUE, DrawError)
    /\ UNCHANGED <<cacheVars, batchVars, segVars, currentCacheId, boundFramebuffer, nextHandle,
                   drawLog, offsetVars, phase, hung, submitted, closedSegments, frameCounter>>
    /\ UNCHANGED <<passVars, effectVars, targetVars>>

\* draw() threw: the finally block of CachedRenderer.cacheGroup flushes the
\* capture buffers into the cache target, rebinds the default framebuffer,
\* restores the frame buffers and counters and clears currentCacheId; the
\* exception then leaves Engine.cacheGroup before it restores its offsets,
\* and the caller catches it
CacheGroupThrow ==
    /\ InCallback
    /\ capture.active
    /\ IF passThrough = <<>> THEN TRUE ELSE ~passThrough[Len(passThrough)].inCapture
    /\ LET flushed == IF bufferCounter > 0
                      THEN resetBuffers(renderVertexBuffer(Batch, vertexBuffer, bufferSize,
                                                           boundFramebuffer))
                      ELSE Batch
       IN  /\ arrays' = flushed.arrays
           /\ drawLog' = flushed.log
    /\ boundFramebuffer' = CANVAS
    /\ vertexBuffer' = capture.savedVertexBuffer
    /\ bufferCounter' = capture.savedBufferCounter
    /\ currentCacheId' = Null
    /\ capture' = NoCapture
    /\ last' = LastCall("cacheGroup", capture.cacheId, FALSE, TRUE, DrawError)
    /\ UNCHANGED <<cacheVars, cacheVertexBuffer, bufferSize, segVars, nextHandle, offsetVars,
                   phase, hung, submitted, closedSegments, frameCounter>>
    /\ UNCHANGED <<passVars, effectVars>>
    /\ textureContent' = renderedInto(textureContent, drawLog, drawLog')
    /\ UNCHANGED capturedCalls

\* cacheGroup calls that may be running their draw callback without caching
\* at one time
MaxPassDepth == 1

\* a cacheGroup call that runs draw without caching: its id, and whether it
\* was made inside a capture callback
PassCall(cacheId) == [cacheId |-> cacheId, inCapture |-> capture.active]

\* a cacheGroup call without caching that also touches the LRU position
CacheGroupPassBeginTouchesOrder(cacheId, enabled) ==
    /\ InCallback
    /\ ~cachingEnabled \/ ~enabled
    /\ Len(passThrough) < MaxPassDepth
    /\ passThrough' = Append(passThrough, PassCall(cacheId))
    /\ cacheAccessOrder' = updateAccessOrder(cacheAccessOrder, cacheId)
    /\ last' = LastCall("cacheGroupDraw", cacheId, FALSE, TRUE, "")
    /\ UNCHANGED <<cacheMap, cacheFramebuffers, cacheSizes, maxCacheItems, freed,
                   batchVars, segVars, currentCacheId, capture, boundFramebuffer,
                   nextHandle, drawLog, offsetVars, phase, hung, submitted, closedSegments,
                   frameCounter, cachingEnabled, effectVars, targetVars>>

\* Engine.cacheGroup when caching is off for the engine or for the call, up
\* to the call of draw()
CacheGroupPassBegin(cacheId, enabled) ==
    /\ InCallback
    /\ ~cachingEnabled \/ ~enabled
    /\ Len(passThrough) < MaxPassDepth
    /\ passThrough' = Append(passThrough, PassCall(cacheId))
    /\ last' = LastCall("cacheGroupDraw", cacheId, FALSE, TRUE, "")
    /\ UNCHANGED <<cacheVars, batchVars, segVars, currentCacheId, capture, boundFramebuffer,
                   nextHandle, drawLog, offsetVars, phase, hung, submitted, closedSegments,
                   frameCounter, cachingEnabled, effectVars, targetVars>>

\* Engine.cacheGroup when caching is off, after draw() returned: return false
CacheGroupPassEnd ==
    /\ InCallback
    /\ passThrough # <<>>
    /\ passThrough[Len(passThrough)].inCapture = capture.active
    /\ passThrough' = SubSeq(passThrough, 1, Len(passThrough) - 1)
    /\ last' = LastCall("cacheGroup", passThrough[Len(passThrough)].cacheId, FALSE, TRUE, "")
    /\ UNCHANGED <<cacheVars, batchVars, segVars, currentCacheId, capture, boundFramebuffer,
                   nextHandle, drawLog, offsetVars, phase, hung, submitted, closedSegments,
                   frameCounter, cachingEnabled, effectVars, targetVars>>

\* a hasCachedContent that looks the id up through getCachedData, which
\* moves a cached id to the end of the access order
HasCachedContentTouchesOrder(cacheId) ==
    /\ ~hung
    /\ cacheAccessOrder' = getCachedDataOrder(Registry, cacheId)
    /\ last' = LastCall("hasCachedContent", cacheId,
                        cachingEnabled /\ hasCachedContent(cacheMap, cacheId), FALSE, "")
    /\ UNCHANGED <<cacheMap, cacheFramebuffers, cacheSizes, maxCacheItems, freed, batchVars,
                   segVars, currentCacheId, capture, boundFramebuffer, nextHandle, drawLog,
                   offsetVars, phase, hung, submitted, closedSegments, frameCounter>>
    /\ UNCHANGED <<passVars, effectVars, targetVars>>

\* Engine.hasCachedContent: false in an engine without caching, else
\* CachedRenderer.hasCachedContent, which is cacheMap.has(cacheId)
HasCachedContent(cacheId) ==
    /\ ~hung
    /\ cacheAccessOrder' = cacheAccessOrder
    /\ last' = LastCall("hasCachedContent", cacheId,
                        cachingEnabled /\ hasCachedContent(cacheMap, cacheId), FALSE, "")
    /\ UNCHANGED <<cacheMap, cacheFramebuffers, cacheSizes, maxCacheItems, freed, batchVars,
                   segVars, currentCacheId, capture, boundFramebuffer, nextHandle, drawLog,
                   offsetVars, phase, hung, submitted, closedSegments, frameCounter>>
    /\ UNCHANGED <<passVars, effectVars, targetVars>>

\* Engine.clearCache
ClearCache(cacheId) ==
    /\ cachingEnabled
    /\ InCallback
    /\ SetRegistry(clearCache(Registry, cacheId))
    /\ last' = LastCall("clearCache", Null, FALSE, FALSE, "")
    /\ UNCHANGED <<maxCacheItems, batchVars, segVars, currentCacheId, capture,
                   boundFramebuffer, nextHandle, drawLog, offsetVars, phase, submitted,
                   closedSegments, frameCounter>>
    /\ UNCHANGED <<passVars, effectVars, targetVars>>

\* Engine.clearAllCache
ClearAllCache ==
    /\ cachingEnabled
    /\ InCallback
    /\ SetRegistry(clearAllCache(Registry))
    /\ last' = [LastCall("clearAllCache", Null, FALSE, FALSE, "") EXCEPT !.ids = DOMAIN cacheMap]
    /\ UNCHANGED <<maxCacheItems, batchVars, segVars, currentCacheId, capture,
                   boundFramebuffer, nextHandle, drawLog, offsetVars, phase, submitted,
                   closedSegments, frameCounter>>
    /\ UNCHANGED <<passVars, effectVars, targetVars>>

\* CacheManager.setMaxCacheItems
SetMaxEntries(limit) ==
    /\ cachingEnabled
    /\ InCallback
    /\ maxCacheItems' = limit
    /\ SetRegistry(setMaxCacheItems(Registry, limit))
    /\ last' = LastCall("setMaxEntries", Null, FALSE, FALSE, "")
    /\ UNCHANGED <<batchVars, segVars, currentCacheId, capture, boundFramebuffer,
                   nextHandle, drawLog, offsetVars, phase, submitted, closedSegments, frameCounter>>
    /\ UNCHANGED <<passVars, effectVars, targetVars>>

(***************************************************************************)
(* PostProcessManager: setEffect and clearEffect.  A JavaScript value is a *)
(* record [type, integer, v]: its typeof, whether Number.isInteger holds,  *)
(* and its value when it is an integer.  An effect is a record [name,      *)
(* uniforms, vertex, fragment, link]: uniforms is [defined, entries] with  *)
(* entries the sequence of Object.entries(effect.uniforms), a mapping      *)
(* being [buffer, offset, size]; vertex, fragment and link are what the GL *)
(* context does with the two shaders and the program.                      *)
(***************************************************************************)
\* length of the shared uniform buffer
SharedBufferLength == 256

Num(n) == [type |-> "number", integer |-> TRUE, v |-> n]
\* 1.5, NaN, Infinity
Fraction == [type |-> "number", integer |-> FALSE, v |-> 0]
Text == [type |-> "string", integer |-> FALSE, v |-> 0]
Undefined == [type |-> "undefined", integer |-> FALSE, v |-> 0]

\* effect.uniforms is undefined
NoUniforms == [defined |-> FALSE, entries |-> <<>>]
Uniforms(entries) == [defined |-> TRUE, entries |-> entries]

\* the checks of one mapping, in the order of the validation loop: the
\* message of the first that fails, "" when all pass
validateUniformMapping(mapping, sharedBufferLength) ==
    LET offset == mapping.offset
        size == mapping.size
        effectiveSize == IF size.type = "number" THEN size.v ELSE 1
    IN  IF mapping.buffer # "shared"
        THEN "references a different buffer"
        ELSE IF offset.type # "number" \/ ~offset.integer \/ offset.v < 0
        THEN "has an invalid offset"
        ELSE IF size.type # "undefined"
                /\ (size.type # "number" \/ ~size.integer \/ size.v < 1 \/ size.v > 4)
        THEN "has an invalid size"
        ELSE IF offset.v + effectiveSize > sharedBufferLength
        THEN "exceeds the shared buffer length"
        ELSE ""

\* the validation loop over the entries: the message of the first mapping
\* that fails
RECURSIVE validateEntries(_, _)
validateEntries(entries, sharedBufferLength) ==
    IF entries = <<>> THEN ""
    ELSE LET err == validateUniformMapping(Head(entries), sharedBufferLength)
         IN  IF err # "" THEN err
             ELSE validateEntries(Tail(entries), sharedBufferLength)

\* the validation of effect.uniforms: nothing to check when it is undefined
validateUniformMappings(uniforms, sharedBufferLength) ==
    IF ~uniforms.defined THEN ""
    ELSE validateEntries(uniforms.entries, sharedBufferLength)

\* PostProcessManager.clearEffect on the manager value pm = [program,
\* effect, gpu]
clearEffect(pm) ==
    [program |-> 0, effect |-> Null,
     gpu |-> IF pm.program # 0
             THEN [pm.gpu EXCEPT !.deletedPrograms = @ + 1]
             ELSE pm.gpu]

\* createShader: [gpu, shader, err]; shader is 0 when none is returned
createShader(g, outcome) ==
    IF outcome = "null"
    THEN [gpu |-> g, shader |-> 0, err |-> "Failed to create shader"]
    ELSE IF outcome = "compileFails"
    THEN [gpu |-> [g EXCEPT !.shaders = @ + 1, !.deletedShaders = @ + 1], shader |-> 0,
          err |-> "Error compiling shader"]
    ELSE [gpu |-> [g EXCEPT !.shaders = @ + 1], shader |-> g.shaders + 1, err |-> ""]

\* createProgram: [gpu, program, err]
createProgram(g, outcome) ==
    IF outcome = "null"
    THEN [gpu |-> g, program |-> 0, err |-> "Failed to create program"]
    ELSE IF outcome = "linkFails"
    THEN [gpu |-> [g EXCEPT !.programs = @ + 1, !.deletedPrograms = @ + 1], program |-> 0,
          err |-> "Error in program linking"]
    ELSE [gpu |-> [g EXCEPT !.programs = @ + 1], program |-> g.programs + 1, err |-> ""]

\* the try/catch of setEffect: compile both shaders, link, delete the
\* shaders that were returned; [program, effect, gpu, err]
compileEffect(pm, e) ==
    LET vs == createShader(pm.gpu, e.vertex)
        fs == createShader(vs.gpu, e.fragment)
        pr == createProgram(fs.gpu, e.link)
        deleteShaders(g, n) == [g EXCEPT !.deletedShaders = @ + n]
    IN  IF vs.err # ""
        THEN [program |-> pm.program, effect |-> pm.effect, gpu |-> vs.gpu, err |-> vs.err]
        ELSE IF fs.err # ""
        THEN [program |-> pm.program, effect |-> pm.effect,
              gpu |-> deleteShaders(fs.gpu, 1), err |-> fs.err]
        ELSE IF pr.err # ""
        THEN [program |-> pm.program, effect |-> pm.effect,
              gpu |-> deleteShaders(pr.gpu, 2), err |-> pr.err]
        ELSE [program |-> pr.program, effect |-> e.name,
              gpu |-> deleteShaders(pr.gpu, 2), err |-> ""]

\* setEffect with the validation loop after the compilation
setEffectCompilesFirst(pm, e) ==
    LET cleared == clearEffect(pm)
        compiled == compileEffect(cleared, e)
        err == validateUniformMappings(e.uniforms, SharedBufferLength)
    IN  IF compiled.err # "" THEN compiled
        ELSE IF err # "" THEN [compiled EXCEPT !.err = err, !.effect = Null]
        ELSE compiled

\* PostProcessManager.setEffect: [program, effect, gpu, err]
setEffect(pm, e) ==
    LET cleared == clearEffect(pm)
        err == validateUniformMappings(e.uniforms, SharedBufferLength)
    IN  IF err # ""
        THEN [program |-> cleared.program, effect |-> cleared.effect, gpu |-> cleared.gpu,
              err |-> err]
        ELSE compileEffect(cleared, e)

\* the manager's fields and the GL object counts
Manager == [program |-> program, effect |-> effect, gpu |-> gpu]

\* setEffect calls made in one behaviour
MaxEffectCalls == 2

\* a setEffect call: the effect it was given and the error it threw
EffectCall(e, err) ==
    [op |-> "setEffect", id |-> e.name, ret |-> FALSE, cb |-> FALSE, err |-> err,
     ids |-> {}, arg |-> e]

\* Engine.setPostProcessEffect -> PostProcessManager.setEffect
SetEffect(e) ==
    /\ ~hung /\ gpu.setEffectCalls < MaxEffectCalls
    /\ LET r == setEffect(Manager, e) IN
       /\ program' = r.program /\ effect' = r.effect
       /\ gpu' = [r.gpu EXCEPT !.setEffectCalls = @ + 1]
       /\ last' = EffectCall(e, r.err)
    /\ UNCHANGED <<cacheVars, batchVars, segVars, currentCacheId, capture, boundFramebuffer,
                   nextHandle, drawLog, offsetVars, phase, hung, submitted, closedSegments,
                   frameCounter, passVars, targetVars>>

\* Engine.clearPostProcessEffect -> PostProcessManager.clearEffect
ClearEffect ==
    /\ ~hung /\ effect # Null
    /\ LET r == clearEffect(Manager) IN
       /\ program' = r.program /\ effect' = r.effect /\ gpu' = r.gpu
    /\ last' = LastCall("clearEffect", Null, FALSE, FALSE, "")
    /\ UNCHANGED <<cacheVars, batchVars, segVars, currentCacheId, capture, boundFramebuffer,
                   nextHandle, drawLog, offsetVars, phase, hung, submitted, closedSegments,
                   frameCounter, passVars, targetVars>>

\* offsets and sizes a caller may put in a mapping
OffsetValues == {Num(-1), Num(0), Num(253), Num(256), Fraction, Text}
SizeValues == {Undefined, Num(0), Num(1), Num(4), Num(5), Fraction}
\* a mapping on another buffer whose offset and size are valid
OtherBufferMapping == [buffer |-> "other", offset |-> Num(0), size |-> Num(1)]
Mappings == [buffer : {"shared"}, offset : OffsetValues, size : SizeValues]
                \cup {OtherBufferMapping}
\* a mapping that passes every check
ValidMapping == [buffer |-> "shared", offset |-> Num(0), size |-> Num(4)]
\* effect.uniforms: undefined, one mapping, or a valid mapping and another
UniformEntries ==
    {NoUniforms} \cup {Uniforms(<<m>>) : m \in Mappings}
        \cup {Uniforms(<<ValidMapping, m>>) : m \in Mappings}
\* what the GL context does with the vertex shader, the fragment shader and
\* the program, up to the first failure
GlOutcomes == {<<"ok", "ok", "ok">>, <<"null", "ok", "ok">>, <<"compileFails", "ok", "ok">>,
               <<"ok", "null", "ok">>, <<"ok", "compileFails", "ok">>,
               <<"ok", "ok", "null">>, <<"ok", "ok", "linkFails">>}
Effects == {[name |-> "fx", uniforms |-> u, vertex |-> g[1], fragment |-> g[2], link |-> g[3]] :
                u \in UniformEntries, g \in GlOutcomes}

(***************************************************************************)
(* Engine.render and growBuffer.                                           *)
(***************************************************************************)
\* Engine.render up to the call of the frame callback: resetBuffers,
\* clearScreen, updateTime
FrameBegin ==
    /\ ~hung /\ phase \in {"init", "flushed", "aborted"}
    /\ frameCounter < MaxFrames
    /\ bufferCounter' = resetBuffers(Batch).counter
    /\ phase' = "frame"
    /\ submitted' = <<>> /\ drawLog' = <<>> /\ closedSegments' = <<>>
    /\ UNCHANGED <<cacheVars, arrays, vertexBuffer, cacheVertexBuffer, bufferSize, segVars,
                   currentCacheId, capture, boundFramebuffer, nextHandle, offsetVars, hung,
                   last, frameCounter>>
    /\ UNCHANGED <<passVars, effectVars, targetVars>>

\* a frame end without endRenderToTexture and renderPostProcess: the
\* off-screen target of the frame stays bound
FrameEndKeepsTarget ==
    /\ InCallback /\ ~capture.active /\ passThrough = <<>>
    /\ closedSegments' = closeSegments(segments, bufferCounter, currentCacheId)
    /\ SetBatch(renderWithPostProcessing(Batch, vertexBuffer, bufferSize, currentCacheId))
    /\ boundFramebuffer' = MAINTARGET
    /\ phase' = "flushed"
    /\ frameCounter' = frameCounter + 1
    /\ UNCHANGED <<cacheVars, vertexBuffer, cacheVertexBuffer, bufferSize, currentCacheId,
                   capture, nextHandle, offsetVars, hung, last, submitted>>
    /\ UNCHANGED <<passVars, effectVars, targetVars>>

\* Engine.render after the frame callback returned: renderWithPostProcessing
FrameEnd ==
    /\ InCallback /\ ~capture.active /\ passThrough = <<>>
    /\ closedSegments' = closeSegments(segments, bufferCounter, currentCacheId)
    /\ SetBatch(renderWithPostProcessing(Batch, vertexBuffer, bufferSize, currentCacheId))
    /\ boundFramebuffer' = CANVAS
    /\ phase' = "flushed"
    /\ frameCounter' = frameCounter + 1
    /\ UNCHANGED <<cacheVars, vertexBuffer, cacheVertexBuffer, bufferSize, currentCacheId,
                   capture, nextHandle, offsetVars, hung, last, submitted>>
    /\ UNCHANGED <<passVars, effectVars, targetVars>>

\* Engine.render when the frame callback throws outside a capture: the
\* exception leaves render, so renderWithPostProcessing and frameCounter++
\* are not reached and nothing is reset
FrameAbort ==
    /\ InCallback /\ ~capture.active /\ passThrough = <<>>
    /\ phase' = "aborted"
    /\ UNCHANGED <<cacheVars, batchVars, segVars, currentCacheId, capture, boundFramebuffer,
                   nextHandle, drawLog, offsetVars, hung, last, submitted, closedSegments,
                   frameCounter>>
    /\ UNCHANGED <<passVars, effectVars, targetVars>>

\* Engine.growBuffer -> CachedRenderer.growBuffer -> Renderer.growBuffer,
\* called between frames: new frame arrays and new capture arrays
GrowBuffer(newSize) ==
    /\ ~hung /\ phase # "frame"
    /\ bufferSize' = newSize * FloatsPerQuad
    /\ bufferCounter' = 0
    /\ LET main == FreshArrayId({})
           scratch == FreshArrayId({main})
       IN  /\ vertexBuffer' = main
           /\ cacheVertexBuffer' = scratch
           /\ arrays' = (main :> NewArray(newSize * FloatsPerQuad)
                         @@ scratch :> NewArray(newSize * FloatsPerQuad))
    /\ last' = LastCall("growBuffer", Null, FALSE, FALSE, "")
    /\ UNCHANGED <<cacheVars, segVars, currentCacheId, capture, boundFramebuffer,
                   nextHandle, drawLog, offsetVars, phase, hung, submitted, closedSegments,
                   frameCounter>>
    /\ UNCHANGED <<passVars, effectVars, targetVars>>

(***************************************************************************)
(* Specifications.  Next is the whole API.  The other specifications       *)
(* exercise one component each, with every operation that writes the       *)
(* component's state, so that the exploration reaches the depth the        *)
(* component's properties need.                                            *)
(***************************************************************************)
Next ==
    \/ FrameBegin
    \/ FrameEnd
    \/ FrameAbort
    \/ \E n \in GrowSizes : GrowBuffer(n)
    \/ \E d \in GroupOffsets : StartGroup(d[1], d[2])
    \/ EndGroupOk
    \/ EndGroupEmpty
    \/ DrawSprite(0, 0, 1, 1)
    \/ DrawLine(0, 0, 1, 0)
    \/ \E id \in Ids : DrawCachedContent(id, 1, 1)
    \/ \E id \in Ids : CacheGroupReuse(id)
    \/ \E id \in Ids, dims \in CacheDims : CacheGroupExisting(id, dims)
    \/ \E id \in Ids : HasCachedContent(id)
    \/ \E id \in Ids : CacheGroupNested(id)
    \/ \E id \in Ids, dims \in CacheDims : CacheGroupBegin(id, dims)
    \/ CacheGroupEnd
    \/ CacheGroupThrow
    \/ \E id \in Ids, dims \in CacheDims, stage \in CreateFailures :
           CacheGroupCreateFails(id, dims, stage)
    \/ \E id \in Ids, enabled \in BOOLEAN : CacheGroupPassBegin(id, enabled)
    \/ CacheGroupPassEnd
    \/ \E id \in Ids : ClearCache(id)
    \/ ClearAllCache
    \/ \E n \in MaxItemsValues : SetMaxEntries(n)
    \/ \E e \in Effects : SetEffect(e)
    \/ ClearEffect

Spec == Init /\ [][Next]_vars

\* at most n live draws have been issued in the frame after the step
WithinDraws(n) == Len(submitted') <= n

\* the cache registry: every operation that reads or writes the registry or
\* the capture state, for every id and every maxCacheItems; at most
\* MaxCacheDraws cached quads are played back per frame
MaxCacheDraws == 1

NextCache ==
    \/ FrameBegin
    \/ FrameEnd
    \/ \E id \in Ids : DrawCachedContent(id, 0, 0) /\ WithinDraws(MaxCacheDraws)
    \/ \E id \in Ids : CacheGroupReuse(id) /\ WithinDraws(MaxCacheDraws)
    \/ \E id \in Ids : CacheGroupNested(id)
    \/ \E id \in Ids, dims \in CacheDims : CacheGroupBegin(id, dims)
    \/ CacheGroupEnd
    \/ \E id \in Ids : ClearCache(id)
    \/ ClearAllCache
    \/ \E n \in MaxItemsValues : SetMaxEntries(n)

SpecCache == InitWith(MaxItemsValues) /\ [][NextCache]_vars

\* the transform offset stack: startGroup and endGroup between draws, over
\* several frames; at most MaxGroupDraws sprites are drawn per frame
MaxGroupDraws == 2

NextOffset ==
    \/ FrameBegin
    \/ FrameEnd
    \/ \E d \in GroupOffsets : StartGroup(d[1], d[2])
    \/ EndGroupOk
    \/ EndGroupEmpty
    \/ DrawSprite(0, 0, 1, 1) /\ WithinDraws(MaxGroupDraws)

SpecOffset == InitWith({2}) /\ [][NextOffset]_vars

\* the geometry batch and the draw-order segmentation: sprite, line and
\* cached quads in any order, captures into the scratch batch, frames and
\* growBuffer, with room in the registry for every id of BatchIds
BatchIds == {"A"}

NextBatch ==
    \/ FrameBegin
    \/ FrameEnd
    \/ \E n \in GrowSizes : GrowBuffer(n)
    \/ DrawSprite(0, 0, 1, 1)
    \/ DrawLine(0, 0, 1, 0)
    \/ \E id \in BatchIds : DrawCachedContent(id, 1, 1)
    \/ \E id \in BatchIds, dims \in CacheDims : CacheGroupBegin(id, dims)
    \/ CacheGroupEnd

SpecBatch == InitWith({2}) /\ [][NextBatch]_vars

(***************************************************************************)
(* Properties of the cache registry (SpecCache).                           *)
(***************************************************************************)
RegistrySize == Cardinality(DOMAIN cacheMap)

\* the cache operations that may change the registry or the access order
MutatingOps == {"cacheGroup", "drawCachedContent", "clearCache", "clearAllCache",
                "setMaxEntries"}

\* a mutating cache operation has run to completion and none is in progress
OperationCompleted == ~hung /\ ~capture.active /\ last.op \in MutatingOps

\* a step that is a call of cacheGroup: its reuse path, its failure on a
\* nested capture, or the start of its creation path
CacheGroupCalled ==
    /\ last' # last
    /\ \/ last'.op = "cacheGroupBegin"
       \/ last'.op = "cacheGroup" /\ ~last'.ret

\* C1 as stated: after every completed mutating cache operation the registry
\* holds at most maxCacheItems entries, whatever maxCacheItems is
C1_SizeBoundAnyMax == OperationCompleted => RegistrySize <= maxCacheItems

\* C1, for maxCacheItems >= 0: whenever no eviction loop is spinning the
\* registry holds at most maxCacheItems entries
C1_SizeBound == (~hung /\ maxCacheItems >= 0) => RegistrySize <= maxCacheItems

\* a third creation completed under maxCacheItems = 2 and the registry is full
C1_Witness ==
    /\ OperationCompleted /\ last.op = "cacheGroup" /\ last.ret
    /\ maxCacheItems = 2 /\ nextHandle > 3 /\ RegistrySize = 2

\* C2: after every completed mutating cache operation cacheAccessOrder holds
\* exactly the keys of cacheMap, each once
C2_AccessOrderMatchesRegistry ==
    OperationCompleted =>
        /\ Range(cacheAccessOrder) = DOMAIN cacheMap
        /\ Len(cacheAccessOrder) = RegistrySize

\* C3: when a creation overflows the registry, every evicted id was used
\* less recently than every id that stays (the new id being the most recent)
C3_EvictsLeastRecentlyUsed ==
    [][(last'.op = "cacheGroupBegin" /\ last' # last /\ ~hung') =>
         LET recency == Append(cacheAccessOrder, last'.id)
             evicted == (DOMAIN cacheMap \cup {last'.id}) \ DOMAIN cacheMap'
         IN  \A e \in evicted, k \in DOMAIN cacheMap' :
                 IndexOf(recency, e) < IndexOf(recency, k)]_vars

\* C4: a cacheGroup call that directly follows a cacheGroup call on the same
\* id that ran the callback and returned true takes the reuse path: it
\* returns false and does not run the callback
C4_SecondCallReuses ==
    [][(last.op = "cacheGroup" /\ last.ret /\ CacheGroupCalled /\ last'.id = last.id) =>
         (last'.op = "cacheGroup" /\ ~last'.ret /\ ~last'.cb /\ last'.err = "")]_vars

\* C5: a cacheGroup call for an uncached id made during a capture throws
\* 'already in a cache group', does not run its callback, and leaves
\* currentCacheId, the pending capture, the registry and the handle
\* allocator as they were
C5_NestedCaptureFails ==
    [][(currentCacheId # Null /\ CacheGroupCalled /\ last'.id \notin DOMAIN cacheMap) =>
         /\ last' = NestedCaptureResult(last'.id)
         /\ UNCHANGED <<currentCacheId, capture, cacheVars, nextHandle, boundFramebuffer>>]_vars

\* the capture of "A" is in flight and a nested cacheGroup("B") has failed
C5_Witness ==
    /\ last = NestedCaptureResult("B")
    /\ currentCacheId = "A" /\ capture.active /\ capture.cacheId = "A"
    /\ "B" \notin DOMAIN cacheMap

C7_EndGroupEmptyFails ==
    [][(offsetGroups = <<>> /\ last'.op = "endGroup" /\ last' # last) =>
         /\ last'.err = "No group to end"
         /\ UNCHANGED <<offsetX, offsetY, offsetGroups>>]_vars

\* endGroup has just failed on an empty stack after a frame was rendered
C7_Witness ==
    /\ last = EndGroupEmptyResult
    /\ offsetGroups = <<>> /\ offsetX = 0 /\ offsetY = 0
    /\ frameCounter > 0

(***************************************************************************)
(* Properties of the geometry batch and the segmentation (SpecBatch).      *)
(***************************************************************************)
VerticesPerQuad == 6

\* draw calls of the frame that did not go into a cache render target
LiveCalls == SelectSeq(drawLog, LAMBDA c : c.target \in {CANVAS, MAINTARGET})

\* the (ordinal, texture) pairs of the quads a sequence of draw calls drew
RECURSIVE DrawnQuads(_)
DrawnQuads(calls) ==
    IF calls = <<>> THEN <<>>
    ELSE [i \in 1..Len(Head(calls).quads) |-> <<Head(calls).quads[i].n, Head(calls).texture>>]
         \o DrawnQuads(Tail(calls))

\* the (ordinal, texture) pairs of the live draws in submission order
SubmittedQuads == [i \in 1..Len(submitted) |-> <<i, submitted[i]>>]

\* number of positions where the texture source changes
Transitions(srcs) == Cardinality({i \in 1..(Len(srcs) - 1) : srcs[i] # srcs[i + 1]})

RECURSIVE SumRanges(_)
SumRanges(segs) ==
    IF segs = <<>> THEN 0 ELSE (Head(segs).end - Head(segs).start) + SumRanges(Tail(segs))

\* C8: a frame whose live draws were [sprite, sprite, cached(X), sprite,
\* cached(X)] closes with the four segments [SPRITESHEET, X, SPRITESHEET, X]
\* whose vertex ranges add up to the vertices appended
C8_FiveDrawFrameSegments ==
    \A x \in 1..(nextHandle - 1) :
        (phase = "flushed" /\ submitted = <<SPRITESHEET, SPRITESHEET, x, SPRITESHEET, x>>) =>
            /\ Len(closedSegments) = 4
            /\ [i \in 1..4 |-> closedSegments[i].texture] = <<SPRITESHEET, x, SPRITESHEET, x>>
            /\ SumRanges(closedSegments) = VerticesPerQuad * Len(submitted)

\* C9: when a frame has been flushed, the quads drawn are the live draws of
\* the frame, each once, in submission order, each with the texture it was
\* submitted with, in (texture transitions + 1) draw calls
C9_ReplayPreservesOrder ==
    (phase = "flushed" /\ submitted # <<>>) =>
        /\ DrawnQuads(LiveCalls) = SubmittedQuads
        /\ Len(LiveCalls) = Transitions(submitted) + 1

\* C10: bufferCounter never exceeds bufferSize
C10_UsedWithinCapacity == bufferCounter <= bufferSize

(***************************************************************************)
(* Playback inside transform groups (SpecPlayback).                        *)
(***************************************************************************)
\* (x, y) a caller may pass to drawCachedContent
PlayPositions == {<<0, 0>>, <<1, 2>>}
\* the offset of the transform groups that enclose the playback
PlaybackOffsets == {<<2, 1>>}

\* playback inside transform groups: drawCachedContent at explicit positions
\* and cacheGroup on a cached id, in frames and inside the capture of the
\* id, for every batch capacity of GrowSizes
NextPlayback ==
    \/ FrameBegin
    \/ FrameEnd
    \/ \E n \in GrowSizes : GrowBuffer(n)
    \/ \E d \in PlaybackOffsets : StartGroup(d[1], d[2])
    \/ EndGroupOk
    \/ \E id \in BatchIds, p \in PlayPositions :
           DrawCachedContent(id, p[1], p[2]) /\ WithinDraws(MaxGroupDraws)
    \/ \E id \in BatchIds : CacheGroupReuse(id) /\ WithinDraws(MaxGroupDraws)
    \/ \E id \in BatchIds, dims \in CacheDims : CacheGroupBegin(id, dims)
    \/ CacheGroupEnd

SpecPlayback == InitWith({2}) /\ [][NextPlayback]_vars

\* the step is a playback call for cacheId at (p[1], p[2]): drawCachedContent,
\* or cacheGroup on an id that is cached (which plays back at (0, 0))
PlaybackCall(cacheId, p) ==
    \/ DrawCachedContent(cacheId, p[1], p[2])
    \/ p = <<0, 0>> /\ CacheGroupReuse(cacheId)

\* the step stored exactly one quad in the active batch, after the quads
\* already there (or at the start after an overflow flush): the quad shows
\* the texture of cacheId with the entry's width and height, its corner at
\* (p[1] + offsetX, p[2] + offsetY); every other slot is as it was
AppendsPlaybackQuad(cacheId, p) ==
    LET slot == (bufferCounter' - FloatsPerQuad) \div FloatsPerQuad
        before == arrays[vertexBuffer].data
        after == arrays'[vertexBuffer'].data
    IN  /\ bufferCounter' = IF bufferCounter + FloatsPerQuad > bufferSize
                            THEN FloatsPerQuad ELSE bufferCounter + FloatsPerQuad
        /\ slot \in DOMAIN after
        /\ after[slot].kind = "cached" /\ after[slot].src = cacheMap[cacheId]
        /\ after[slot].x1 = p[1] + offsetX /\ after[slot].y1 = p[2] + offsetY
        /\ after[slot].x2 - after[slot].x1 = cacheSizes[cacheId][1]
        /\ after[slot].y2 - after[slot].y1 = cacheSizes[cacheId][2]
        /\ \A other \in DOMAIN after \ {slot} :
               other \in DOMAIN before /\ after[other] = before[other]

GroupIds == {"A", "B"}

\* transform groups that enclose sprite draws, captures and rejected nested
\* captures, over several frames; the capture callbacks open no group
NextGroup ==
    \/ FrameBegin
    \/ FrameEnd
    \/ \E d \in PlaybackOffsets : StartGroup(d[1], d[2]) /\ ~capture.active
    \/ EndGroupOk /\ ~capture.active
    \/ DrawSprite(2, 1, 1, 1) /\ WithinDraws(MaxCacheDraws)
    \/ \E id \in GroupIds : CacheGroupNested(id)
    \/ \E id \in GroupIds, dims \in CacheDims : CacheGroupBegin(id, dims)
    \/ CacheGroupEnd

SpecGroup == InitWith({2}) /\ [][NextGroup]_vars

\* the step enters the draw callback of a creation-path cacheGroup
CaptureStarts == ~capture.active /\ capture'.active

\* the step is the return of a creation-path cacheGroup
CaptureReturns == capture.active /\ ~capture'.active

\* C12: the callback of a creation-path cacheGroup starts with the offset
\* (0, 0); when the call returns the offset is the one in effect before the
\* call; neither step of the call changes the stack of pushed groups
C12_CaptureOffsetTransparent ==
    [][/\ CaptureStarts =>
              /\ offsetX' = 0 /\ offsetY' = 0
              /\ offsetGroups' = offsetGroups
       /\ CaptureReturns =>
              /\ <<offsetX', offsetY'>> = capture.offsetAtCall
              /\ offsetGroups' = offsetGroups]_vars

(***************************************************************************)
(* Clearing, resizing and touching the cache registry (SpecCache).         *)
(***************************************************************************)
\* number of delete calls the GL context received for handle h
TextureDeletes(f, h) == IF h \in DOMAIN f.textures THEN f.textures[h] ELSE 0

FramebufferDeletes(f, h) == IF h \in DOMAIN f.framebuffers THEN f.framebuffers[h] ELSE 0

\* render targets created and not deleted
LiveTargets(f) == {h \in 1..(nextHandle - 1) :
                      TextureDeletes(f, h) = 0 /\ FramebufferDeletes(f, h) = 0}

\* the sequence s without the entries equal to e
Without(s, e) == SelectSeq(s, LAMBDA x : x # e)

\* the step deleted the texture and the framebuffer of handle h, each once
DestroysTarget(h) ==
    /\ TextureDeletes(freed', h) = TextureDeletes(freed, h) + 1
    /\ FramebufferDeletes(freed', h) = FramebufferDeletes(freed, h) + 1

\* C13: clearCache(id) deletes the render target of id and removes id from
\* the registry and the access order when id is cached, and changes nothing
\* when it is not; every other entry, its place in the access order and its
\* render target stay as they were; a second clearCache(id) changes nothing
C13_ClearCacheRemovesOnlyId ==
    [][\A cacheId \in Ids : ClearCache(cacheId) =>
         /\ ~hasCachedContent(cacheMap', cacheId)
         /\ cacheId \notin Range(cacheAccessOrder')
         /\ hasCachedContent(cacheMap, cacheId) => DestroysTarget(cacheMap[cacheId])
         /\ ~hasCachedContent(cacheMap, cacheId) =>
                UNCHANGED <<cacheMap, cacheFramebuffers, cacheSizes, cacheAccessOrder, freed>>
         /\ \A other \in DOMAIN cacheMap \ {cacheId} :
                /\ hasCachedContent(cacheMap', other)
                /\ cacheMap'[other] = cacheMap[other]
                /\ cacheFramebuffers'[other] = cacheFramebuffers[other]
                /\ cacheSizes'[other] = cacheSizes[other]
                /\ cacheMap[other] \in LiveTargets(freed')
         /\ DOMAIN cacheMap' \subseteq DOMAIN cacheMap
         /\ cacheAccessOrder' = Without(cacheAccessOrder, cacheId)
         /\ clearCache(clearCache(Registry, cacheId), cacheId) = clearCache(Registry, cacheId)
         /\ LiveTargets(clearCache(clearCache(Registry, cacheId), cacheId).freed)
                = LiveTargets(freed')]_vars

\* two entries were created under maxCacheItems = 2 and clearCache has
\* destroyed exactly one of them
C13_Witness ==
    /\ last.op = "clearCache" /\ maxCacheItems = 2 /\ nextHandle = 3
    /\ RegistrySize = 1 /\ Len(cacheAccessOrder) = 1
    /\ Cardinality(LiveTargets(freed)) = 1

\* the step is a cacheGroup call that enters its draw callback
RunsCallback == CacheGroupCalled /\ last'.op = "cacheGroupBegin" /\ last'.cb /\ ~hung'

\* the step deleted the render target of every entry and left the three
\* maps and the access order empty, so that no id is cached
ClearsEverything ==
    /\ \A cacheId \in DOMAIN cacheMap : DestroysTarget(cacheMap[cacheId])
    /\ LiveTargets(freed') \cap {cacheMap[cacheId] : cacheId \in DOMAIN cacheMap} = {}
    /\ cacheMap' = EmptyMap /\ cacheFramebuffers' = EmptyMap /\ cacheSizes' = EmptyMap
    /\ cacheAccessOrder' = <<>>
    /\ \A cacheId \in Ids : ~hasCachedContent(cacheMap', cacheId)

\* C14 as stated: clearAllCache destroys every entry and empties the
\* registry and the access order, and a cacheGroup call that follows it on
\* an id it removed runs its callback
C14_ClearAllThenRecaptureAlways ==
    [][/\ ClearAllCache => ClearsEverything
       /\ (last.op = "clearAllCache" /\ CacheGroupCalled /\ last'.id \in last.ids) =>
              RunsCallback]_vars

\* C14, for calls made outside a capture: clearAllCache destroys every entry
\* and empties the registry and the access order, and a cacheGroup call that
\* follows it outside a capture on an id it removed runs its callback
C14_ClearAllThenRecapture ==
    [][/\ ClearAllCache => ClearsEverything
       /\ (/\ last.op = "clearAllCache" /\ CacheGroupCalled /\ last'.id \in last.ids
           /\ currentCacheId = Null) => RunsCallback]_vars

\* clearAllCache removed the entries "A" and "B" and cacheGroup("A") has
\* entered its callback again
C14_Witness ==
    /\ last.op = "cacheGroupBegin" /\ last.id = "A" /\ ~hung
    /\ nextHandle = 4 /\ DOMAIN cacheMap = {"A"} /\ cacheMap["A"] = 3
    /\ LiveTargets(freed) = {3}
    /\ TextureDeletes(freed, 1) = 1 /\ TextureDeletes(freed, 2) = 1

\* the last n entries of s (all of s when it is shorter, none when n < 0)
Suffix(s, n) ==
    IF n <= 0 THEN <<>>
    ELSE IF n >= Len(s) THEN s ELSE SubSeq(s, Len(s) - n + 1, Len(s))

\* C15: setMaxEntries(n) returns with maxCacheItems = n and at most n
\* entries, which are the entries used most recently, every older one
\* evicted; a bound that is not lowered evicts nothing
C15_SetMaxEvictsOldestFirst ==
    [][\A n \in MaxItemsValues : SetMaxEntries(n) =>
         /\ ~hung'
         /\ maxCacheItems' = n
         /\ RegistrySize' <= n
         /\ cacheAccessOrder' = Suffix(cacheAccessOrder, n)
         /\ DOMAIN cacheMap' = Range(Suffix(cacheAccessOrder, n))
         /\ \A cacheId \in DOMAIN cacheMap \ DOMAIN cacheMap' :
                DestroysTarget(cacheMap[cacheId])
         /\ n >= maxCacheItems =>
                UNCHANGED <<cacheMap, cacheFramebuffers, cacheSizes, cacheAccessOrder, freed>>
      ]_vars

\* the step is a playback lookup of cacheId: drawCachedContent, or cacheGroup
\* on an id that is cached
LookupCall(cacheId) == DrawCachedContent(cacheId, 0, 0) \/ CacheGroupReuse(cacheId)

\* C16: a playback lookup of a cached id leaves the id at the most recently
\* used end of cacheAccessOrder, the other ids in their order, so that the
\* id is not at the evicted end while another entry is cached
C16_LookupMovesToMRU ==
    [][\A cacheId \in Ids : (LookupCall(cacheId) /\ hasCachedContent(cacheMap, cacheId)) =>
         /\ cacheAccessOrder' = Append(Without(cacheAccessOrder, cacheId), cacheId)
         /\ RegistrySize > 1 => Head(cacheAccessOrder') # cacheId]_vars

(***************************************************************************)
(* Draw calls under transform groups: sprites and lines drawn between      *)
(* startGroup and endGroup calls, frames and growBuffer; at most           *)
(* MaxGroupDraws quads are drawn per frame.                                *)
(***************************************************************************)
NextDraw ==
    \/ FrameBegin
    \/ FrameEnd
    \/ GrowBuffer(1)
    \/ \E d \in PlaybackOffsets : StartGroup(d[1], d[2])
    \/ EndGroupOk
    \/ DrawSprite(2, 1, 1, 1) /\ WithinDraws(MaxGroupDraws)
    \/ DrawLine(0, 1, 1, 0) /\ WithinDraws(MaxGroupDraws)

SpecDraw == InitWith({2}) /\ [][NextDraw]_vars

\* the step stored, in the batch slot just below the cursor, a quad of the
\* given kind with the given corners
AppendsQuadAt(kind, x1, y1, x2, y2) ==
    LET arr == arrays'[vertexBuffer']
        slot == (bufferCounter' \div FloatsPerQuad) - 1
    IN  /\ slot \in DOMAIN arr.data
        /\ arr.data[slot].kind = kind
        /\ arr.data[slot].x1 = x1 /\ arr.data[slot].y1 = y1
        /\ arr.data[slot].x2 = x2 /\ arr.data[slot].y2 = y2

\* the step is a startGroup or an endGroup call
GroupCall == (\E d \in PlaybackOffsets : StartGroup(d[1], d[2])) \/ EndGroupOk

\* the draw calls the step issued read the batch as it was before the step
FlushReadsBatch ==
    /\ Len(drawLog') >= Len(drawLog)
    /\ \A i \in (Len(drawLog) + 1)..Len(drawLog') :
           drawLog'[i].quads = ReadQuads(arrays[vertexBuffer], drawLog'[i].start, drawLog'[i].count)

\* C17: a sprite or line draw stores the call's coordinates plus the
\* (offsetX, offsetY) of the moment of the call (whenever the batch has room
\* for a quad), a startGroup or endGroup call changes nothing in the batch,
\* and the flush draws the batch as the draw calls left it
C17_OffsetsAppliedAtCallTime ==
    [][/\ (DrawSprite(2, 1, 1, 1) /\ bufferSize >= FloatsPerQuad) =>
              AppendsQuadAt("sprite", 2 + offsetX, 1 + offsetY, 3 + offsetX, 2 + offsetY)
       /\ (DrawLine(0, 1, 1, 0) /\ bufferSize >= FloatsPerQuad) =>
              AppendsQuadAt("line", 0 + offsetX, 1 + offsetY, 1 + offsetX, 0 + offsetY)
       /\ GroupCall => UNCHANGED <<batchVars, segVars, drawLog>>
       /\ FrameEnd => FlushReadsBatch]_vars

\* a sprite drawn inside a transform group is in the batch with the group's
\* offset while the offset has since gone back to zero, and the frame is
\* flushed with it
C17_Witness ==
    /\ phase = "flushed" /\ offsetX = 0 /\ offsetY = 0
    /\ bufferSize >= FloatsPerQuad
    /\ \E i \in 1..Len(drawLog) : \E j \in 1..Len(drawLog[i].quads) :
           /\ drawLog[i].quads[j].kind = "sprite"
           /\ drawLog[i].quads[j].x1 = 4 /\ drawLog[i].quads[j].y1 = 2

(***************************************************************************)
(* The frame loop: render calls whose callback draws sprites and cached    *)
(* content, captures, and returns or throws.                               *)
(***************************************************************************)
\* segments a frame may hold when its callback throws
MaxStaleSegments == 2

NextFrame ==
    \/ FrameBegin
    \/ FrameEnd
    \/ FrameAbort /\ Len(segments) <= MaxStaleSegments
    \/ DrawSprite(0, 0, 1, 1) /\ WithinDraws(MaxGroupDraws)
    \/ \E id \in BatchIds : DrawCachedContent(id, 1, 1) /\ WithinDraws(MaxGroupDraws)
    \/ \E id \in BatchIds, dims \in CacheDims : CacheGroupBegin(id, dims)
    \/ CacheGroupEnd

SpecFrame == InitWith({2}) /\ [][NextFrame]_vars

\* C18: when render has reset the frame state and is about to call the
\* frame callback, the batch cursor is zero and the segment list is empty
C18_FrameStartsClean ==
    [][FrameBegin => bufferCounter' = 0 /\ segments' = <<>>]_vars

(***************************************************************************)
(* cacheGroup with caching off: engines constructed with and without the   *)
(* caching option, cacheGroup calls with enabled true and false, sprites   *)
(* drawn by the draw callbacks, transform groups opened and closed by the  *)
(* frame callback.                                                         *)
(***************************************************************************)
NextPass ==
    \/ FrameBegin
    \/ FrameEnd
    \/ \E d \in PlaybackOffsets : StartGroup(d[1], d[2]) /\ ~capture.active /\ passThrough = <<>>
    \/ EndGroupOk /\ ~capture.active /\ passThrough = <<>>
    \/ DrawSprite(2, 1, 1, 1) /\ passThrough # <<>> /\ WithinDraws(MaxCacheDraws)
    \/ \E id \in GroupIds, dims \in CacheDims : CacheGroupBegin(id, dims)
    \/ CacheGroupEnd
    \/ \E id \in GroupIds, enabled \in BOOLEAN : CacheGroupPassBegin(id, enabled)
    \/ CacheGroupPassEnd

SpecPass == InitEngine({2}, BOOLEAN) /\ [][NextPass]_vars

\* the step is a cacheGroup call or return for which caching is off: for the
\* engine, or for the call
CachingOffCall ==
    \/ /\ ~cachingEnabled
       /\ last' # last
       /\ last'.op \in {"cacheGroup", "cacheGroupBegin", "cacheGroupDraw"}
    \/ \E id \in GroupIds : CacheGroupPassBegin(id, FALSE)
    \/ CacheGroupPassEnd

\* the step neither reads, creates nor updates a cache entry, its render
\* target or its LRU position, and starts no capture
CacheUntouched ==
    UNCHANGED <<cacheVars, nextHandle, currentCacheId, capture, boundFramebuffer,
                batchVars, segVars, drawLog>>

\* C20: a cacheGroup call with caching off (for the engine or for the call)
\* starts its draw callback once, leaves the offsets as the caller set
\* them, returns false when the callback has returned, and touches no cache
\* entry and no LRU position
C20_CachingOffPassThrough ==
    [][CachingOffCall =>
         /\ CacheUntouched
         /\ UNCHANGED <<offsetX, offsetY, offsetGroups, savedOffsetX, savedOffsetY>>
         /\ \/ /\ last'.op = "cacheGroupDraw" /\ last'.cb
               /\ Len(passThrough') = Len(passThrough) + 1
            \/ /\ last'.op = "cacheGroup" /\ last'.cb /\ ~last'.ret /\ last'.err = ""
               /\ Len(passThrough') = Len(passThrough) - 1]_vars

\* on an engine with caching, cacheGroup(id, ..., enabled = false) has
\* returned for an id that is cached and is not the most recently used one,
\* inside a transform group
C20_Witness ==
    /\ cachingEnabled
    /\ last.op = "cacheGroup" /\ last.cb /\ ~last.ret
    /\ hasCachedContent(cacheMap, last.id)
    /\ cacheAccessOrder # <<>> /\ cacheAccessOrder[Len(cacheAccessOrder)] # last.id
    /\ offsetX # 0

(***************************************************************************)
(* The post-process effect: setEffect with every mapping and every outcome *)
(* of the GL context, and clearEffect.                                     *)
(***************************************************************************)
NextEffect ==
    \/ \E e \in Effects : SetEffect(e)
    \/ ClearEffect

SpecEffect == InitWith({2}) /\ [][NextEffect]_vars

\* the step is a setEffect call; last'.arg is the effect it was given
SetEffectCalled ==
    /\ gpu'.setEffectCalls = gpu.setEffectCalls + 1
    /\ last'.op = "setEffect"

\* the mapping references another buffer, has a negative or non-integer
\* offset, a size outside 1..4, or reaches past the shared buffer
InvalidMapping(mapping) ==
    \/ mapping.buffer # "shared"
    \/ ~mapping.offset.integer
    \/ mapping.offset.v < 0
    \/ mapping.size.integer /\ (mapping.size.v < 1 \/ mapping.size.v > 4)
    \/ /\ mapping.size.integer
       /\ mapping.offset.v + mapping.size.v > SharedBufferLength
    \/ /\ mapping.size = Undefined
       /\ mapping.offset.v + 1 > SharedBufferLength

HasInvalidMapping(e) ==
    /\ e.uniforms.defined
    /\ \E i \in 1..Len(e.uniforms.entries) : InvalidMapping(e.uniforms.entries[i])

\* C19: setEffect with an invalid uniform mapping raises an error and the
\* call creates no shader and no program, whatever the GL context would
\* have done with the shaders
C19_InvalidMappingCreatesNothing ==
    [][(SetEffectCalled /\ HasInvalidMapping(last'.arg)) =>
          /\ last'.err # ""
          /\ gpu'.shaders = gpu.shaders
          /\ gpu'.programs = gpu.programs
          /\ program' = 0]_vars

\* after an effect was installed, a setEffect call was rejected for a
\* mapping that reaches past the shared buffer
C19_Witness ==
    /\ last.op = "setEffect"
    /\ last.arg.vertex = "ok" /\ last.arg.fragment = "ok" /\ last.arg.link = "ok"
    /\ last.err = "exceeds the shared buffer length"
    /\ gpu.shaders = 2 /\ gpu.programs = 1
    /\ gpu.setEffectCalls = 2

(***************************************************************************)
(* Lookups of cached and unknown ids: playback, captures and clearCache    *)
(* over the ids of GroupIds; at most MaxCacheDraws cached quads per frame. *)
(***************************************************************************)
NextLookup ==
    \/ FrameBegin
    \/ FrameEnd
    \/ \E id \in GroupIds : DrawCachedContent(id, 1, 1) /\ WithinDraws(MaxCacheDraws)
    \/ \E id \in GroupIds, dims \in CacheDims : CacheGroupBegin(id, dims)
    \/ CacheGroupEnd
    \/ \E id \in GroupIds : ClearCache(id)

SpecLookup == InitWith({2}) /\ [][NextLookup]_vars

\* C21: drawCachedContent on an id that is not in the registry throws
\* nothing, appends no geometry, opens no segment, issues no draw call and
\* leaves the registry and the access order unchanged
C21_UnknownIdIsNoOp ==
    [][\A cacheId \in GroupIds :
          (DrawCachedContent(cacheId, 1, 1) /\ ~hasCachedContent(cacheMap, cacheId)) =>
              /\ last'.op = "drawCachedContent" /\ last'.err = ""
              /\ UNCHANGED <<cacheVars, batchVars, segVars, drawLog, submitted,
                             currentCacheId, capture, offsetVars>>]_vars

\* drawCachedContent has returned, outside a capture, in a frame in which
\* one id is cached and nothing was drawn: the id it was given is the
\* other, unknown one
C21_Witness ==
    /\ last.op = "drawCachedContent" /\ last.err = ""
    /\ phase = "frame" /\ DOMAIN cacheMap = {"A"} /\ cacheAccessOrder = <<"A">>
    /\ currentCacheId = Null
    /\ bufferCounter = 0 /\ segments = <<>> /\ submitted = <<>>

(***************************************************************************)
(* Render target creation: captures that succeed and captures whose        *)
(* texture or framebuffer cannot be created, followed by playback.         *)
(***************************************************************************)
NextCreate ==
    \/ FrameBegin
    \/ FrameEnd
    \/ \E id \in GroupIds : DrawCachedContent(id, 1, 1) /\ WithinDraws(MaxCacheDraws)
    \/ \E id \in GroupIds, dims \in CacheDims : CacheGroupBegin(id, dims)
    \/ CacheGroupEnd
    \/ \E id \in GroupIds, dims \in CacheDims, stage \in CreateFailures :
           CacheGroupCreateFails(id, dims, stage)

SpecCreate == InitWith({2}) /\ [][NextCreate]_vars

\* the step is a cacheGroup call on cacheId whose render target cannot be
\* created
CreateFailsCall(cacheId) ==
    \E dims \in CacheDims, stage \in CreateFailures : CacheGroupCreateFails(cacheId, dims, stage)

\* C22: a cacheGroup call whose texture or framebuffer creation fails throws,
\* does not run draw, starts no capture and leaves the registry and the
\* access order as they were, without an entry for its id
C22_FailedCreationRegistersNothing ==
    [][\A cacheId \in GroupIds : CreateFailsCall(cacheId) =>
          /\ last'.err # "" /\ ~last'.cb /\ ~last'.ret
          /\ currentCacheId' = Null /\ ~capture'.active
          /\ UNCHANGED <<cacheMap, cacheFramebuffers, cacheSizes, cacheAccessOrder>>
          /\ ~hasCachedContent(cacheMap', cacheId)
          /\ cacheId \notin Range(cacheAccessOrder')]_vars

\* cacheGroup has failed on an incomplete framebuffer while another id is
\* cached: the registry holds the other id only
C22_Witness ==
    /\ last.op = "cacheGroup" /\ last.err = "Cache framebuffer not complete"
    /\ last.id = "B"
    /\ DOMAIN cacheMap = {"A"} /\ cacheAccessOrder = <<"A">>

(***************************************************************************)
(* Round trip of a capture and its playback (SpecRoundTrip).               *)
(***************************************************************************)
\* sprites (x, y, w, h) a capture callback draws into the 2 x 1 target: two
\* that lie inside it, one that overhangs its right edge and one below it
RoundTripSprites == {<<0, 0, 1, 1>>, <<1, 0, 1, 1>>, <<1, 0, 2, 1>>, <<0, 1, 1, 1>>}
\* lines (x1, y1, x2, y2) a capture callback draws
RoundTripLines == {<<0, 0, 2, 1>>}
\* positions (x, y) passed to drawCachedContent
RoundTripPositions == {<<0, 0>>, <<3, 2>>}

NextRoundTrip ==
    \/ FrameBegin
    \/ FrameEnd
    \/ \E s \in RoundTripSprites : DrawSprite(s[1], s[2], s[3], s[4]) /\ capture.active
    \/ \E l \in RoundTripLines : DrawLine(l[1], l[2], l[3], l[4]) /\ capture.active
    \/ \E p \in RoundTripPositions :
           DrawCachedContent("A", p[1], p[2]) /\ WithinDraws(MaxCacheDraws)
    \/ CacheGroupReuse("A") /\ WithinDraws(MaxCacheDraws)
    \/ \E dims \in CacheDims : CacheGroupBegin("A", dims)
    \/ CacheGroupEnd

SpecRoundTrip == InitWith({2}) /\ [][NextRoundTrip]_vars

\* the corner coordinates of a quad as a tuple (x1, y1, x2, y2)
Corners(q) == <<q.x1, q.y1, q.x2, q.y2>>

\* the quad Engine.drawSpriteFromCoordinates / Engine.drawLine hands to the
\* renderer for a recorded call when the offset of the enclosing groups is
\* (ox, oy)
DirectCorners(call, ox, oy) ==
    LET a == call.args
        bx == ox + call.dx
        by == oy + call.dy
    IN  IF call.kind = "sprite"
        THEN <<a[1] + bx, a[2] + by, a[1] + bx + a[3], a[2] + by + a[4]>>
        ELSE <<a[1] + bx, a[2] + by, a[3] + bx, a[4] + by>>

DirectGeometry(calls, ox, oy) == [i \in 1..Len(calls) |-> DirectCorners(calls[i], ox, oy)]

Clamp(v, lo, hi) == IF v < lo THEN lo ELSE IF v > hi THEN hi ELSE v

\* gl.viewport(0, 0, width, height) with u_resolution = (width, height): a
\* quad reaches the texture only where it covers the target's pixels
Visible(q, dims) ==
    <<Clamp(q.x1, 0, dims[1]), Clamp(q.y1, 0, dims[2]),
      Clamp(q.x2, 0, dims[1]), Clamp(q.y2, 0, dims[2])>>

\* the texture row that receives pixel row y of a target of the given
\* height: a render target stores its rows bottom-up
TargetRow(y, height) == height - y

\* the screen row at which a playback quad spanning rows y1..y2 shows
\* texture row t when its V coordinates are left unflipped (0 at y1, 1 at y2)
PlaybackRowUnflipped(t, y1, y2, height) == y1 + (t * (y2 - y1)) \div height

\* the screen row at which the quad of drawCachedTexture, spanning rows
\* y1..y2, shows texture row t: its V coordinate is 1 at y1 and 0 at y2
PlaybackRow(t, y1, y2, height) == y1 + ((height - t) * (y2 - y1)) \div height

\* the screen column at which the quad shows texture column s (U is 0 at x1
\* and 1 at x2)
PlaybackColumn(s, x1, x2, width) == x1 + (s * (x2 - x1)) \div width

\* what the playback quad pq shows of the quads rendered into its texture
PlaybackGeometry(pq, content, dims) ==
    [i \in 1..Len(content) |->
        LET v == Visible(content[i], dims) IN
        <<PlaybackColumn(v[1], pq.x1, pq.x2, dims[1]),
          PlaybackRow(TargetRow(v[2], dims[2]), pq.y1, pq.y2, dims[2]),
          PlaybackColumn(v[3], pq.x1, pq.x2, dims[1]),
          PlaybackRow(TargetRow(v[4], dims[2]), pq.y1, pq.y2, dims[2])>>]

\* every recorded call lies inside the target rectangle
InsideTarget(calls, dims) ==
    \A i \in 1..Len(calls) :
        LET c == DirectCorners(calls[i], 0, 0) IN
        /\ c[1] \in 0..dims[1] /\ c[3] \in 0..dims[1]
        /\ c[2] \in 0..dims[2] /\ c[4] \in 0..dims[2]

\* the quad a playback step has just stored in the batch of the frame
PlayedQuad == arrays'[vertexBuffer'].data[(bufferCounter' - FloatsPerQuad) \div FloatsPerQuad]

\* the step played back cacheId at p and the quad it stored shows the
\* captured calls where drawing them inside a group at the playback position
\* would have put them
RoundTrips(cacheId, p) ==
    LET h == cacheMap[cacheId] IN
    PlaybackGeometry(PlayedQuad, textureContent[h], cacheSizes[cacheId])
        = DirectGeometry(capturedCalls[h], p[1] + offsetX, p[2] + offsetY)

\* a playback of a completed capture into the frame
PlaysCapture(cacheId, p) ==
    /\ PlaybackCall(cacheId, p) /\ hasCachedContent(cacheMap, cacheId)
    /\ currentCacheId = Null /\ bufferSize >= FloatsPerQuad

CoversBatch(segs, used) ==
    IF segs = <<>> THEN used = 0
    ELSE /\ segs[1].start = 0
         /\ \A i \in 1..Len(segs) : segs[i].start <= segs[i].end
         /\ \A i \in 1..(Len(segs) - 1) : segs[i + 1].start = segs[i].end
         /\ segs[Len(segs)].end = used \div 2

\* C24: when a frame has been closed, the segments it was closed with are
\* contiguous and non-overlapping, start at vertex 0 and cover exactly the
\* vertices [0, bufferCounter / 2) of the batch of the frame
C24_ClosedSegmentsCoverBatch ==
    [][(phase = "frame" /\ phase' = "flushed") =>
           CoversBatch(closedSegments', bufferCounter')]_vars

(***************************************************************************)
(* Captures that return, throw or fail to start (SpecCapture).             *)
(***************************************************************************)
\* frames whose callbacks draw sprites and cached content and call
\* cacheGroup with callbacks that return or throw, with nested calls and
\* with render targets that cannot be created; a frame callback may itself
\* end by an exception
NextCapture ==
    \/ FrameBegin
    \/ FrameEnd
    \/ FrameAbort /\ Len(segments) <= MaxStaleSegments
    \/ DrawSprite(0, 0, 1, 1) /\ capture.active
    \/ \E id \in GroupIds : DrawCachedContent(id, 1, 1) /\ WithinDraws(MaxCacheDraws)
    \/ \E id \in GroupIds : CacheGroupNested(id)
    \/ \E id \in GroupIds, dims \in CacheDims : CacheGroupBegin(id, dims)
    \/ CacheGroupEnd
    \/ CacheGroupThrow
    \/ \E id \in GroupIds, dims \in CacheDims : CacheGroupCreateFails(id, dims, "incomplete")

SpecCapture == InitWith({2}) /\ [][NextCapture]_vars

\* C25: currentCacheId is set exactly while the draw callback of a
\* creation-path cacheGroup call is running, to the id of that call, and it
\* is null between frames
C25_OneCaptureInFlight ==
    /\ currentCacheId # Null <=> capture.active
    /\ capture.active => currentCacheId = capture.cacheId
    /\ phase # "frame" => currentCacheId = Null

\* the capture of "B" is in flight, its callback has drawn a sprite, and "A"
\* was captured before
C25_Witness ==
    /\ currentCacheId = "B" /\ capture.active /\ capture.cacheId = "B"
    /\ capture.draws = 1 /\ last.op = "drawSprite"
    /\ hasCachedContent(cacheMap, "A")

\* the draw calls of log that did not go into a cache render target
LiveCallsOf(log) == SelectSeq(log, LAMBDA c : c.target \in {CANVAS, MAINTARGET})

\* the quads the batch holds below its cursor when its array is vb and its
\* cursor is counter
Pending(heap, vb, counter) == ReadQuads(heap[vb], 0, counter \div 2)

\* the step leaves the quads pending in array vb below the cursor, the
\* segment list and the draw calls issued outside cache targets as they are
MainBatchUntouched(vb, counter) ==
    /\ Pending(arrays', vb, counter) = Pending(arrays, vb, counter)
    /\ UNCHANGED segVars
    /\ LiveCallsOf(drawLog') = LiveCallsOf(drawLog)

\* C26: a creation-path cacheGroup saves the batch of the frame and its
\* cursor when it starts, no step of its draw callback changes the quads
\* pending in that batch, the segment list or the draw calls issued outside
\* the cache target, and when the call returns the saved batch is the active
\* one again, with the saved cursor and the quads that were pending
C26_CaptureLeavesMainBatch ==
    [][/\ CaptureStarts =>
              /\ capture'.savedVertexBuffer = vertexBuffer
              /\ capture'.savedBufferCounter = bufferCounter
              /\ MainBatchUntouched(vertexBuffer, bufferCounter)
       /\ (capture.active /\ capture'.active) =>
              /\ capture'.savedVertexBuffer = capture.savedVertexBuffer
              /\ capture'.savedBufferCounter = capture.savedBufferCounter
              /\ MainBatchUntouched(capture.savedVertexBuffer, capture.savedBufferCounter)
       /\ (CaptureReturns /\ last'.ret) =>
              /\ vertexBuffer' = capture.savedVertexBuffer
              /\ bufferCounter' = capture.savedBufferCounter
              /\ boundFramebuffer' = CANVAS
              /\ MainBatchUntouched(capture.savedVertexBuffer, capture.savedBufferCounter)]_vars

\* the step is a cacheGroup call made right after a cacheGroup call whose
\* draw callback threw
CalledAfterThrow == last.op = "cacheGroup" /\ last.err = DrawError /\ CacheGroupCalled

\* C27: when the draw callback of a capture throws, the exception leaves
\* cacheGroup with currentCacheId null, the default framebuffer bound and
\* the batch of the frame active with the cursor saved at the call; the next
\* cacheGroup call is not rejected as nested
C27_ThrowEndsCapture ==
    [][/\ CacheGroupThrow =>
              /\ last'.err = DrawError
              /\ currentCacheId' = Null /\ ~capture'.active
              /\ boundFramebuffer' = CANVAS
              /\ vertexBuffer' = capture.savedVertexBuffer
              /\ bufferCounter' = capture.savedBufferCounter
       /\ CalledAfterThrow => last' # NestedCaptureResult(last'.id)]_vars

\* the capture of "A" threw after its callback drew a sprite, and the next
\* call, cacheGroup("B"), has entered its draw callback
C27_Witness ==
    /\ last = LastCall("cacheGroupBegin", "B", FALSE, TRUE, "")
    /\ currentCacheId = "B" /\ capture.active
    /\ nextHandle = 3 /\ 1 \in DOMAIN textureContent /\ Len(textureContent[1]) = 1
    /\ "A" \in DOMAIN cacheMap /\ cacheMap["A"] = 1
    /\ savedOffsetX # <<>>

(***************************************************************************)
(* Throwing captures inside transform groups (SpecThrow).                  *)
(***************************************************************************)
\* frames that call cacheGroup inside a transform group, with callbacks that
\* draw a sprite and then return or throw, nested calls that are rejected,
\* and repeated calls for the same id
NextThrow ==
    \/ FrameBegin
    \/ FrameEnd
    \/ \E d \in PlaybackOffsets : StartGroup(d[1], d[2]) /\ ~capture.active /\ offsetGroups = <<>>
    \/ EndGroupOk /\ ~capture.active
    \/ DrawSprite(0, 0, 1, 1) /\ capture.active
    \/ \E id \in GroupIds : CacheGroupNested(id)
    \/ \E id \in GroupIds : CacheGroupReuse(id) /\ WithinDraws(MaxCacheDraws)
    \/ \E id \in GroupIds, dims \in CacheDims : CacheGroupBegin(id, dims)
    \/ CacheGroupEnd
    \/ CacheGroupThrow

SpecThrow == InitWith({2}) /\ [][NextThrow]_vars

\* C28: when the exception of a throwing or rejecting draw callback leaves
\* the outermost cacheGroup call, offsetX and offsetY are what they were
\* when that call was made
C28_ThrowRestoresOffset ==
    [][CacheGroupThrow => <<offsetX', offsetY'>> = capture.offsetAtCall]_vars

\* the step is a cacheGroup call for the id whose capture threw in the call
\* before
RetriedAfterThrow ==
    /\ last.op = "cacheGroup" /\ last.err = DrawError
    /\ CacheGroupCalled /\ last'.id = last.id

\* C29: when the draw callback of the first capture of an id throws, the id
\* is not in the registry afterwards, and the next cacheGroup call for the
\* id runs its draw callback
C29_FailedCaptureNotRegistered ==
    [][/\ CacheGroupThrow => ~hasCachedContent(cacheMap', capture.cacheId)
       /\ RetriedAfterThrow => last'.cb]_vars

(***************************************************************************)
(* The life of the render targets of cache entries (SpecTargets).          *)
(***************************************************************************)
\* ids of the entries that are created, cleared and evicted; the empty id is
\* the one the eviction loop skips
TargetIds == {"", "A", "B"}
\* values passed to setMaxCacheItems
TargetLimits == {0, 1, 2}

\* captures that return, throw or fail to create their target, clearCache,
\* clearAllCache and setMaxCacheItems, inside and outside captures
NextTargets ==
    \/ FrameBegin
    \/ FrameEnd
    \/ \E id \in TargetIds, dims \in CacheDims : CacheGroupBegin(id, dims)
    \/ CacheGroupEnd
    \/ CacheGroupThrow
    \/ \E id \in TargetIds, dims \in CacheDims, stage \in CreateFailures :
           CacheGroupCreateFails(id, dims, stage)
    \/ \E id \in TargetIds : ClearCache(id)
    \/ ClearAllCache
    \/ \E n \in TargetLimits : SetMaxEntries(n)

SpecTargets == InitWith({1, 2}) /\ [][NextTargets]_vars

\* handles of the render targets that were created for a cache entry
EntryTargets == DOMAIN textureContent

\* handles of the render targets of the entries in the registry
RegisteredTargets == {cacheMap[id] : id \in DOMAIN cacheMap}

\* C30: the texture and the framebuffer of a render target created for a
\* cache entry have not been deleted while the entry is in the registry, and
\* each has been deleted exactly once when the entry has left it through
\* clearCache, clearAllCache or eviction; no handle is deleted twice
C30_TargetsDestroyedOnce ==
    /\ \A h \in EntryTargets :
           IF h \in RegisteredTargets
           THEN TextureDeletes(freed, h) = 0 /\ FramebufferDeletes(freed, h) = 0
           ELSE TextureDeletes(freed, h) = 1 /\ FramebufferDeletes(freed, h) = 1
    /\ \A h \in 1..(nextHandle - 1) :
           TextureDeletes(freed, h) <= 1 /\ FramebufferDeletes(freed, h) <= 1
    /\ \A id \in DOMAIN cacheMap :
           id \in DOMAIN cacheFramebuffers /\ cacheFramebuffers[id] = cacheMap[id]

\* three targets were created for entries and each has been destroyed, the
\* last of them by clearAllCache
C30_Witness ==
    /\ EntryTargets = {1, 2, 3} /\ RegisteredTargets = {}
    /\ last.op = "clearAllCache" /\ last.ids # {}
    /\ \A h \in EntryTargets :
           TextureDeletes(freed, h) = 1 /\ FramebufferDeletes(freed, h) = 1

(***************************************************************************)
(* Termination of the eviction loop (SpecTargets).                         *)
(***************************************************************************)
\* C31: the eviction loop of cacheGroup and of setMaxCacheItems terminates
\* for every limit and every set of registered ids: no call is left inside
\* the loop for ever
C31_EvictionTerminates == ~hung

(***************************************************************************)
(* The entry a capture creates and the eviction of the same call           *)
(* (SpecTargets).                                                          *)
(***************************************************************************)
\* C32: under a limit of at least one entry, the eviction that a
\* creation-path cacheGroup(id) runs before its callback leaves the entry of
\* id in the registry, as the most recently used (last) element of the
\* access order
C32_NewEntrySurvivesEviction ==
    [][(CaptureStarts /\ maxCacheItems >= 1) =>
           /\ hasCachedContent(cacheMap', currentCacheId')
           /\ cacheAccessOrder' # <<>>
           /\ cacheAccessOrder'[Len(cacheAccessOrder')] = currentCacheId']_vars

(***************************************************************************)
(* Cached quads of a frame and the destruction of their targets            *)
(* (SpecReplay).                                                           *)
(***************************************************************************)
\* ids that are captured, played back and destroyed within one frame
ReplayIds == {"A", "B"}

\* playback of cached ids followed, in the same frame, by clearCache,
\* clearAllCache, the eviction of a later capture or setMaxCacheItems
NextReplay ==
    \/ FrameBegin
    \/ FrameEnd
    \/ \E id \in ReplayIds : DrawCachedContent(id, 0, 0) /\ WithinDraws(MaxCacheDraws)
    \/ \E id \in ReplayIds, dims \in CacheDims : CacheGroupBegin(id, dims)
    \/ CacheGroupEnd
    \/ \E id \in ReplayIds : ClearCache(id)
    \/ ClearAllCache
    \/ \E n \in TargetLimits : SetMaxEntries(n)

SpecReplay == InitWith({1, 2}) /\ [][NextReplay]_vars

\* the draw calls the step issued
IssuedCalls == SubSeq(drawLog', Len(drawLog) + 1, Len(drawLog'))

\* C33: every draw call that the flush of a frame issues for a cached-texture
\* segment binds a texture that has not been deleted
C33_ReplayedTargetsAlive ==
    [][(phase = "frame" /\ phase' = "flushed") =>
           \A i \in 1..Len(IssuedCalls) :
               IssuedCalls[i].texture # SPRITESHEET =>
                   TextureDeletes(freed, IssuedCalls[i].texture) = 0]_vars

(***************************************************************************)
(* Playback requested by the callback of a capture (SpecRoundTrip).        *)
(***************************************************************************)
\* C34: while a capture is in flight, a playback of a cached id requested by
\* the callback (drawCachedContent, or cacheGroup on a cached id) stores no
\* quad in the scratch batch, moves no cursor, issues no draw call and
\* records no segment
C34_PlaybackInCaptureAppendsNothing ==
    [][\A cacheId \in BatchIds, p \in RoundTripPositions :
         (/\ PlaybackCall(cacheId, p) /\ hasCachedContent(cacheMap, cacheId)
          /\ capture.active) =>
             UNCHANGED <<arrays, bufferCounter, segments, currentSegmentTexture, drawLog>>]_vars

\* the callback of the capture of an id has drawn one sprite and has then
\* asked for the playback of that id: the scratch batch holds the sprite
\* alone and no segment is open
C34_Witness ==
    /\ capture.active /\ currentCacheId = capture.cacheId
    /\ hasCachedContent(cacheMap, capture.cacheId)
    /\ last.op = "drawCachedContent"
    /\ bufferCounter = FloatsPerQuad /\ segments = <<>>
    /\ arrays[vertexBuffer].data[0].kind = "sprite"

(***************************************************************************)
(* The arrays of the frame batch and of the capture batch (SpecCreate).    *)
(***************************************************************************)
\* C35: the array of the batch of the frame (this.vertexBuffer outside a
\* capture, the saved array during one) is never the array of the capture
\* batch (this.cacheVertexBuffer)
C35_BatchesNeverShareStorage ==
    IF capture.active
    THEN capture.savedVertexBuffer # cacheVertexBuffer
    ELSE vertexBuffer # cacheVertexBuffer

ResizeDims == {<<2, 1>>, <<1, 2>>}

\* captures of the ids of BatchIds at each size of ResizeDims, cacheGroup on
\* the cached id with each size, inside transform groups, and clearCache
NextResize ==
    \/ FrameBegin
    \/ FrameEnd
    \/ \E d \in PlaybackOffsets : StartGroup(d[1], d[2]) /\ ~capture.active /\ offsetGroups = <<>>
    \/ EndGroupOk /\ ~capture.active
    \/ \E id \in BatchIds, dims \in ResizeDims : CacheGroupBegin(id, dims)
    \/ CacheGroupEnd
    \/ \E id \in BatchIds, dims \in ResizeDims :
           CacheGroupExisting(id, dims) /\ WithinDraws(MaxCacheDraws)
    \/ \E id \in BatchIds : ClearCache(id)

SpecResize == InitWith({2}) /\ [][NextResize]_vars

\* C37 as stated: cacheGroup on a cached id with a (width, height) other than
\* the one the entry was created with throws and plays nothing back
C37_SizeMismatchFailsFast ==
    [][\A id \in BatchIds, dims \in ResizeDims :
         (CacheGroupExisting(id, dims) /\ dims # cacheSizes[id]) =>
             /\ last'.err # ""
             /\ UNCHANGED <<arrays, bufferCounter, segments>>]_vars

\* C37, as the code has it: cacheGroup on a cached id with a (width, height)
\* other than the one the entry was created with throws nothing, returns
\* false without running the callback, leaves the stored size, and outside
\* a capture plays the entry back with the size it was created with
C37_SizeMismatchPlaysStoredSize ==
    [][\A id \in BatchIds, dims \in ResizeDims :
         (CacheGroupExisting(id, dims) /\ dims # cacheSizes[id]) =>
             /\ last'.err = "" /\ ~last'.ret /\ ~last'.cb
             /\ cacheSizes' = cacheSizes
             /\ currentCacheId = Null => AppendsPlaybackQuad(id, <<0, 0>>)]_vars

\* an entry created with (2, 1) has been played back by a cacheGroup inside a
\* transform group: the quad of the frame is 2 wide and 1 high
C37_Witness ==
    /\ last.op = "cacheGroup" /\ ~last.cb /\ last.err = ""
    /\ currentCacheId = Null /\ offsetGroups # <<>>
    /\ last.id \in DOMAIN cacheSizes /\ cacheSizes[last.id] = <<2, 1>>
    /\ bufferCounter = FloatsPerQuad
    /\ LET stored == arrays[vertexBuffer].data[0]
       IN  /\ stored.kind = "cached"
           /\ stored.x2 - stored.x1 = 2 /\ stored.y2 - stored.y1 = 1

(***************************************************************************)
(* The batch after a failed creation of a render target (SpecCreate).      *)
(***************************************************************************)
\* C38: after a cacheGroup call whose texture or framebuffer creation fails,
\* no capture is in flight and the active batch is the array that was
\* active before the call, with the cursor it had before the call
C38_FailedCreationRestoresBatch ==
    [][\A cacheId \in GroupIds : CreateFailsCall(cacheId) =>
          /\ currentCacheId' = Null /\ ~capture'.active
          /\ vertexBuffer' = vertexBuffer
          /\ bufferCounter' = bufferCounter]_vars

(***************************************************************************)
(* The existence query (SpecQuery).                                        *)
(***************************************************************************)
\* ids that are captured, played back and asked for
QueryIds == {"A", "B", "C"}

\* hasCachedContent between captures, playbacks and evictions under the
\* limits 1 and 2, in and between frames, inside and outside captures
NextQuery ==
    \/ FrameBegin
    \/ FrameEnd
    \/ \E id \in QueryIds : HasCachedContent(id)
    \/ \E id \in QueryIds : DrawCachedContent(id, 0, 0) /\ WithinDraws(MaxCacheDraws)
    \/ \E id \in QueryIds, dims \in CacheDims : CacheGroupBegin(id, dims)
    \/ CacheGroupEnd

SpecQuery == InitWith({1, 2}) /\ [][NextQuery]_vars

\* C39: hasCachedContent(id) returns whether id is in the registry and
\* changes nothing: not the registry, not the access order (so not the
\* entry the next eviction removes), not the capture state, the batch, the
\* segments, the offsets or the GL objects
C39_HasCachedContentIsPure ==
    [][\A id \in QueryIds : HasCachedContent(id) =>
          /\ last'.ret = (id \in DOMAIN cacheMap)
          /\ UNCHANGED <<cacheMap, cacheFramebuffers, cacheSizes, cacheAccessOrder>>
          /\ UNCHANGED <<maxCacheItems, freed>>
          /\ UNCHANGED <<batchVars, segVars, offsetVars, targetVars>>
          /\ UNCHANGED <<currentCacheId, capture, boundFramebuffer, nextHandle, drawLog>>]_vars

\* with two entries cached, the older one has just been asked for and found:
\* it is still the first in the access order
C39_Witness ==
    /\ last.op = "hasCachedContent" /\ last.ret
    /\ Len(cacheAccessOrder) = 2
    /\ last.id = cacheAccessOrder[1]

(***************************************************************************)
(* The three maps of the registry (SpecTargets).                           *)
(***************************************************************************)
\* C40: the texture map, the framebuffer map and the size map of the
\* registry hold the same ids after every cache operation
C40_MapsShareKeys ==
    /\ DOMAIN cacheMap = DOMAIN cacheFramebuffers
    /\ DOMAIN cacheMap = DOMAIN cacheSizes

\* three entries were created and one of them was removed by clearCache:
\* each of the three maps holds the two ids that remain
C40_Witness ==
    /\ last.op = "clearCache"
    /\ nextHandle = 4
    /\ Cardinality(DOMAIN cacheMap) = 2
    /\ Cardinality(DOMAIN cacheFramebuffers) = 2
    /\ Cardinality(DOMAIN cacheSizes) = 2

====
